---- MODULE Spec2Model ----
(***************************************************************************)
(* A model of radicle-surf's browsing core: the path algebra               *)
(* (file_system/path), the generic History/Browser (vcs.rs), and the git   *)
(* backend's ancestry traversal and last-touch index (vcs/git.rs).          *)
(*                                                                         *)
(* The specifications share the variables:                                *)
(*   SpecPath       text -> Path -> text, split_last                       *)
(*   SpecHistory    commit_to_history, one revwalk item per step, over     *)
(*                  every commit graph                                     *)
(*   SpecLastTouch  a git Browser over repositories with trees: commit,    *)
(*                  get, last_commit                                       *)
(*   SpecSwitch     a git Browser over repositories with references:       *)
(*                  head, branch, tag, commit, revspec, rev                *)
(*   SpecHistoryOps History::new, push, map, find_suffix                   *)
(*   SpecDiff       Diff::try_from(git2::Diff)                             *)
(*   SpecPathOps    Path::push, pop, append                                *)
(*   SpecRender     Browser::get_directory between changes of the History  *)
(*   SpecIndex      Repository::diff_commit_and_parents, commit_to_history *)
(*                  and file_history, called on their own                  *)
(*   SpecWalks      get_tree's walk over the entries of a tree, and the     *)
(*                  traversals of a Browser under engine failures          *)
(*   SpecFailFast   the tree walk and the traversals, each with the engine  *)
(*                  failing on the way                                     *)
(*   SpecThreads    get, get_directory, last_commit called by several      *)
(*                  threads on one Browser, one engine call per step       *)
(***************************************************************************)
EXTENDS Integers, Sequences, FiniteSets, TLC

VARIABLES
    \* ---- path algebra (SpecPath) ----
    text,       \* the &str handed to Path::try_from, a sequence of characters
    parseRes,   \* Result<Path, Error> of the parse, or [tag |-> "None"]
    fmtRes,     \* the text Display wrote for the parsed Path
    splitRes,   \* the pair split_last returned for the parsed Path
    \* ---- the repository the engine serves ----
    parents,    \* commit -> sequence of parent commits
    ctime,      \* commit -> commit time, the revwalk's sort key
    tree,       \* commit -> (file -> content), content 0 = the file is absent
    \* ---- commit_to_history in steps (SpecHistory) ----
    walk,       \* the running call: pc, head_id, the revwalk, the commits pushed
    \* ---- the Browser ----
    history,    \* Browser.history: a non-empty sequence of commits
    ret,        \* what the last call on the Browser returned
    \* ---- the diff conversion (SpecDiff) ----
    git_diff,   \* the git2::Diff handed to Diff::try_from: a sequence of deltas
    diffRes,    \* Result<Diff, error::Diff> of the conversion, or [tag |-> "None"]
    \* ---- the rendering function (SpecRender) ----
    rendered,   \* the calls of the Browser's snapshot function so far
    \* ---- a Path under push, pop and append (SpecPathOps) ----
    pathObj,    \* the Path: a non-empty sequence of labels
    \* ---- the tree walk of get_tree (SpecWalks) ----
    entries,    \* the entries of the tree, in the order the walk meets them
    treeRes,    \* what get_tree returned, or [tag |-> "None"]
    \* ---- threads calling one Browser (SpecThreads) ----
    threads     \* thread -> its running call: pc, op, the locals, the result

pathVars == <<text, parseRes, fmtRes, splitRes>>
repoVars == <<parents, ctime, tree>>
extVars == <<git_diff, diffRes, rendered, pathObj, entries, treeRes, threads>>
vars == <<text, parseRes, fmtRes, splitRes, parents, ctime, tree, walk, history, ret,
          git_diff, diffRes, rendered, pathObj, entries, treeRes, threads>>

None == [tag |-> "None"]
Some(v) == [tag |-> "Some", val |-> v]
Ok(v) == [tag |-> "Ok", val |-> v]
Err(e) == [tag |-> "Err", err |-> e]

\* No tree walked, no thread started.
WalkIdle ==
    /\ entries = <<>>
    /\ treeRes = None
    /\ threads = <<>>

\* No diff handed over, nothing rendered, no Path made.
ExtIdle ==
    /\ git_diff = <<>>
    /\ diffRes = None
    /\ rendered = <<>>
    /\ pathObj = <<>>
    /\ WalkIdle

\* ---------------------------------------------------------------- bounds
MaxStrLen == 5
NumCommits == 4
MaxParents == 2
MaxSkew == 1
MaxFault == 1
NumArtifacts == 3
MaxHistLen == 4
MaxDeltas == 2
MaxLines == 3
MaxHunks == 2
MaxPathLen == 4
MaxRenders == 2
NumThreads == 2
MaxEntries == 2
MaxStack == 3

\* ------------------------------------------------------- sequence helpers
Last(s) == s[Len(s)]
Front(s) == SubSeq(s, 1, Len(s) - 1)
Range(s) == {s[i] : i \in 1..Len(s)}
IsPrefix(p, s) == Len(p) <= Len(s) /\ SubSeq(s, 1, Len(p)) = p

RECURSIVE Concat(_)
Concat(ss) == IF ss = <<>> THEN <<>> ELSE Head(ss) \o Concat(Tail(ss))

\* ============================================================ path algebra
\* Text is a sequence of one-character strings over a small alphabet that
\* holds the separator.
Chars == {"a", "b", "/"}
Strings == UNION {[1..n -> Chars] : n \in 0..MaxStrLen}

\* str::trim_end_matches('/'): every trailing separator is removed.
RECURSIVE trim_end_matches(_)
trim_end_matches(s) ==
    IF s # <<>> /\ Last(s) = "/" THEN trim_end_matches(Front(s)) ELSE s

\* str::split('/'): the pieces between separators; "" splits to [""].
RECURSIVE split(_)
split(s) ==
    IF \A i \in 1..Len(s) : s[i] # "/"
    THEN <<s>>
    ELSE LET i == CHOOSE k \in 1..Len(s) :
                      s[k] = "/" /\ \A j \in 1..(k - 1) : s[j] # "/"
         IN <<SubSeq(s, 1, i - 1)>> \o split(SubSeq(s, i + 1, Len(s)))

\* impl TryFrom<&str> for Label
Label_try_from(item) ==
    IF item = <<>> THEN Err("EmptyLabel")
    ELSE IF "/" \in Range(item) THEN Err("LabelHasSlash")
    ELSE Ok(item)

\* The for loop of Path::try_from: each piece becomes a Label, the first
\* failure returns (the ? operator).
RECURSIVE collect_labels(_, _)
collect_labels(pieces, acc) ==
    IF pieces = <<>> THEN Ok(acc)
    ELSE LET l == Label_try_from(Head(pieces))
         IN IF l.tag = "Err" THEN l
            ELSE collect_labels(Tail(pieces), Append(acc, l.val))

\* impl TryFrom<&str> for Path
Path_try_from(item) ==
    LET path == collect_labels(split(trim_end_matches(item)), <<>>)
    IN IF path.tag = "Err" THEN path
       ELSE IF path.val = <<>> THEN Err("EmptyPath")   \* NonEmpty::from_slice
       ELSE Ok(path.val)

\* NonEmpty::split as radicle-surf's split_last calls it: (first, middle,
\* last), where a NonEmpty with an empty tail gives (head, [], head).
NonEmpty_split(ne) ==
    IF Len(ne) = 1
    THEN [first |-> ne[1], middle |-> <<>>, last |-> ne[1]]
    ELSE [first |-> ne[1], middle |-> SubSeq(ne, 2, Len(ne) - 1), last |-> Last(ne)]

\* nonempty.rs split_last
split_last(non_empty) ==
    LET s == NonEmpty_split(non_empty)
    IN IF s.first = s.last /\ s.middle = <<>>
       THEN [prefix |-> <<>>, last |-> s.last]
       ELSE [prefix |-> <<s.first>> \o s.middle, last |-> s.last]

\* impl Display for Path
Path_fmt(path) ==
    LET sl == split_last(path)
    IN Concat([i \in 1..Len(sl.prefix) |-> sl.prefix[i] \o <<"/">>]) \o sl.last

PathIdle ==
    /\ text = <<>>
    /\ parseRes = None
    /\ fmtRes = None
    /\ splitRes = None

InitPath ==
    /\ ExtIdle
    /\ text \in Strings
    /\ parseRes = None
    /\ fmtRes = None
    /\ splitRes = None
    /\ parents = <<>>
    /\ ctime = <<>>
    /\ tree = <<>>
    /\ walk = None
    /\ history = <<>>
    /\ ret = None

\* Path::try_from(text)
Parse ==
    /\ parseRes = None
    /\ parseRes' = Path_try_from(text)
    /\ UNCHANGED <<extVars, text, fmtRes, splitRes, parents, ctime, tree, walk, history, ret>>

\* format!("{}", path) on the parsed Path
Display ==
    /\ parseRes.tag = "Ok"
    /\ fmtRes = None
    /\ fmtRes' = Some(Path_fmt(parseRes.val))
    /\ UNCHANGED <<extVars, text, parseRes, splitRes, parents, ctime, tree, walk, history, ret>>

\* path.split_last() on the parsed Path
SplitLast ==
    /\ parseRes.tag = "Ok"
    /\ splitRes = None
    /\ splitRes' = Some(split_last(parseRes.val))
    /\ UNCHANGED <<extVars, text, parseRes, fmtRes, parents, ctime, tree, walk, history, ret>>

NextPath == Parse \/ Display \/ SplitLast

SpecPath == InitPath /\ [][NextPath]_vars

\* A valid path string: non-empty, and every piece between separators is
\* non-empty (so no leading, trailing or doubled separator).
ValidPathString(s) ==
    /\ s # <<>>
    /\ \A i \in 1..Len(split(s)) : split(s)[i] # <<>>

\* C3: for every valid path string s, rendering the Path parsed from s gives
\* back exactly s: toText(parse(s)) = s.
C3_RoundTrip ==
    (ValidPathString(text) /\ fmtRes.tag = "Some") => fmtRes.val = text

\* C4: split_last of a Path l1..ln returns ([l1..l(n-1)], ln): prefix plus
\* last label is the whole label sequence, and the prefix is empty exactly
\* when n = 1.
C4_SplitLast ==
    splitRes.tag = "Some" =>
        /\ Append(splitRes.val.prefix, splitRes.val.last) = parseRes.val
        /\ (splitRes.val.prefix = <<>>) <=> (Len(parseRes.val) = 1)

\* Text that is empty once a trailing separator is trimmed.
EmptyAfterTrim(s) == s = <<>> \/ s = <<"/">>

\* Text with an empty component: the pieces of the text, with one trailing
\* separator taken off, hold an empty piece.
HasEmptyComponent(s) ==
    LET t == IF s # <<>> /\ Last(s) = "/" THEN Front(s) ELSE s
    IN \E i \in 1..Len(split(t)) : split(t)[i] = <<>>

\* C5: parsing never returns a Path for malformed text: EmptyPath when the
\* text is empty once a trailing separator is trimmed, the invalid-label
\* error when a component is empty.
C5_ParseRejectsMalformed ==
    parseRes.tag # "None" =>
        /\ EmptyAfterTrim(text) => parseRes = Err("EmptyPath")
        /\ (~EmptyAfterTrim(text) /\ HasEmptyComponent(text)) =>
               (parseRes.tag = "Err" /\ parseRes.err \in {"EmptyLabel", "LabelHasSlash"})

\* ============================================================== repository
\* What the repository engine serves. Commits are numbered so that a parent
\* has a smaller number than its children (the graph is a DAG); a commit has
\* at most MaxParents parents, in a fixed order; every commit has its own
\* commit time.
Commits == 1..NumCommits

RECURSIVE SetToSeqDesc(_)
SetToSeqDesc(S) ==
    IF S = {} THEN <<>>
    ELSE LET m == CHOOSE x \in S : \A y \in S : y <= x
         IN <<m>> \o SetToSeqDesc(S \ {m})

ParentChoices(c, candidates) ==
    {SetToSeqDesc(S) : S \in {T \in SUBSET candidates : Cardinality(T) <= MaxParents}}

\* Every commit graph over Commits: any earlier commits as parents.
RECURSIVE Dags(_)
Dags(n) ==
    IF n = 0 THEN {<<>>}
    ELSE {Append(d, ps) : d \in Dags(n - 1), ps \in ParentChoices(n, 1..(n - 1))}

\* Commit times: in commit order, except that one commit (skew) may carry the
\* newest time of all (a skewed clock); 0 skews none.
Times(skew) == [c \in Commits |-> IF c = skew THEN NumCommits + 1 ELSE c]

\* git2::Revwalk, default sorting: a list of pending commits kept by commit
\* time; next() takes the newest pending commit and inserts those of its
\* parents that were not seen before.
revwalk_push(oid) == [pending |-> {oid}, seen |-> {oid}]

revwalk_next(rw) ==
    IF rw.pending = {} THEN [item |-> None, rw |-> rw]
    ELSE LET c == CHOOSE x \in rw.pending : \A y \in rw.pending : ctime[y] <= ctime[x]
         IN [item |-> Some(c),
             rw |-> [pending |-> (rw.pending \ {c}) \cup (Range(parents[c]) \ rw.seen),
                     seen |-> rw.seen \cup Range(parents[c])]]

\* The body of commit_to_history's for loop: the head was pushed when the
\* NonEmpty was made, every other commit is pushed to the end.
history_push_all(commits, commit_id, head_id) == Append(commits, commit_id)

history_push(commits, commit_id, head_id) ==
    IF commit_id = head_id THEN commits ELSE Append(commits, commit_id)

\* ===================================== commit_to_history, one item per step
InitHistory ==
    /\ ExtIdle
    /\ PathIdle
    /\ parents \in Dags(NumCommits)
    /\ \E skew \in 0..NumCommits : ctime = Times(skew)
    /\ tree = <<>>
    /\ walk = [pc |-> "idle"]
    /\ history = <<>>
    /\ ret = None

\* let head_id = head.id(); NonEmpty::new(head); revwalk.push(head_id)
HistBegin(head) ==
    /\ walk.pc = "idle"
    /\ walk' = [pc |-> "loop", head_id |-> head, commits |-> <<head>>,
                revwalk |-> revwalk_push(head)]
    /\ UNCHANGED <<extVars, pathVars, repoVars, history, ret>>

\* One turn of `for commit_result_id in revwalk`.
HistLoop ==
    /\ walk.pc = "loop"
    /\ LET n == revwalk_next(walk.revwalk)
       IN /\ n.item.tag = "Some"
          /\ walk' = [walk EXCEPT !.revwalk = n.rw,
                          !.commits = history_push(@, n.item.val, walk.head_id)]
    /\ UNCHANGED <<extVars, pathVars, repoVars, history, ret>>

\* `commit_result_id?` or `find_commit(commit_id)?` returns the engine's error.
HistFail ==
    /\ walk.pc = "loop"
    /\ revwalk_next(walk.revwalk).item.tag = "Some"
    /\ walk' = [pc |-> "failed", head_id |-> walk.head_id, result |-> Err("Git")]
    /\ UNCHANGED <<extVars, pathVars, repoVars, history, ret>>

\* The revwalk is exhausted: Ok(vcs::History(commits)).
HistReturn ==
    /\ walk.pc = "loop"
    /\ revwalk_next(walk.revwalk).item.tag = "None"
    /\ walk' = [pc |-> "done", head_id |-> walk.head_id, result |-> Ok(walk.commits)]
    /\ UNCHANGED <<extVars, pathVars, repoVars, history, ret>>

NextHistory ==
    \/ \E head \in Commits : HistBegin(head)
    \/ HistLoop
    \/ HistFail
    \/ HistReturn

SpecHistory == InitHistory /\ [][NextHistory]_vars

\* The revisions reachable from c over parent links, c included.
RECURSIVE Ancestors(_)
Ancestors(c) == {c} \cup UNION {Ancestors(parents[c][i]) : i \in 1..Len(parents[c])}

NoDuplicates(s) == \A i, j \in 1..Len(s) : s[i] = s[j] => i = j

Diamond == <<<<>>, <<1>>, <<1>>, <<3, 2>>>>

\* The revisions the running walk has still to hand out.
ToVisit(w) == Ancestors(w.head_id) \ (w.revwalk.seen \ w.revwalk.pending)

\* C2: on every finite commit DAG, from every start, building the History
\* terminates (each turn of the loop hands out a reachable revision not handed
\* out before, so the revisions left to visit strictly decrease) and the
\* History returned holds exactly the revisions reachable from the start,
\* each once.
C2_HistoryIsAncestry ==
    /\ [](walk.pc = "done" =>
            /\ Range(walk.result.val) = Ancestors(walk.head_id)
            /\ NoDuplicates(walk.result.val))
    /\ [](walk.pc = "loop" => NoDuplicates(walk.commits))
    /\ [][(walk.pc = "loop" /\ walk'.pc = "loop") =>
            Cardinality(ToVisit(walk')) < Cardinality(ToVisit(walk))]_vars

\* The diamond A <- B, A <- C, B,C <- D walked from D: A, B, C, D once each.
C2_Witness ==
    /\ SubSeq(parents, 1, 4) = Diamond
    /\ walk.pc = "done"
    /\ walk.head_id = 4
    /\ Len(walk.result.val) = 4
    /\ Range(walk.result.val) = {1, 2, 3, 4}

\* ================================================= trees, diffs, the index
\* The files a tree may hold, in the order a diff lists them, each with the
\* components of its path in the repository.
Files == <<"README", "lib">>
Components(f) == IF f = "README" THEN <<"README">> ELSE <<"src", "lib">>
EmptyTree == [f \in Range(Files) |-> 0]

\* impl TryFrom<path::PathBuf> for Path: the root label, then one label per
\* component.
Path_from_PathBuf_unrooted(path_buf) == path_buf

Path_from_PathBuf(path_buf) == <<"~">> \o path_buf

\* git2 diff_tree_to_tree followed by diff.deltas(): one delta per file whose
\* content differs between the two trees, named by the file's path.
RECURSIVE deltas(_, _, _)
deltas(left_tree, right_tree, files) ==
    IF files = <<>> THEN <<>>
    ELSE (IF left_tree[Head(files)] # right_tree[Head(files)]
          THEN <<Components(Head(files))>> ELSE <<>>)
         \o deltas(left_tree, right_tree, Tail(files))

\* The add_deltas closure: the path of every delta is pushed to touched_files.
add_deltas(diff) == [i \in 1..Len(diff) |-> Path_from_PathBuf(diff[i])]

\* Repository::diff_commit_and_parents: the commit is diffed against the
\* empty tree when it has no parent, else against each parent in turn.
diff_commit_and_parents_first(commit) ==
    IF parents[commit] = <<>>
    THEN add_deltas(deltas(tree[commit], EmptyTree, Files))
    ELSE add_deltas(deltas(tree[commit], tree[parents[commit][1]], Files))

diff_commit_and_parents(commit) ==
    IF parents[commit] = <<>>
    THEN add_deltas(deltas(tree[commit], EmptyTree, Files))
    ELSE Concat([i \in 1..Len(parents[commit]) |->
                    add_deltas(deltas(tree[commit], tree[parents[commit][i]], Files))])

\* struct OrderedCommit
OrderedCommit(id, commit) == [id |-> id, commit |-> commit]

\* OrderedCommit::compare_by_id: the reverse of the order of the ids.
compare_by_id_forward(self, other) ==
    IF self.id < other.id THEN "Less"
    ELSE IF self.id > other.id THEN "Greater" ELSE "Equal"

compare_by_id(self, other) ==
    IF self.id < other.id THEN "Greater"
    ELSE IF self.id > other.id THEN "Less" ELSE "Equal"

\* Forest<Label, NonEmpty<OrderedCommit>>, kept as the set of its (key path,
\* value) entries; the nodes of the trie are the prefixes of the key paths.
Forest_root == {}

\* Forest::insert_with: the value is stored at the path when the path holds
\* none, else the stored value is changed by the closure, which here is
\* `|commits| commits.push(parent_commit)` and is passed as the commit pushed.
Forest_insert_with_front(forest, path, value, pushed) ==
    IF \E e \in forest : e.key = path
    THEN LET e == CHOOSE x \in forest : x.key = path
         IN (forest \ {e}) \cup {[key |-> path, value |-> <<pushed>> \o e.value]}
    ELSE forest \cup {[key |-> path, value |-> value]}

Forest_insert_with(forest, path, value, pushed) ==
    IF \E e \in forest : e.key = path
    THEN LET e == CHOOSE x \in forest : x.key = path
         IN (forest \ {e}) \cup {[key |-> path, value |-> Append(e.value, pushed)]}
    ELSE forest \cup {[key |-> path, value |-> value]}

\* Forest::find: the sub-tree at the node the keys lead to, if there is one.
Forest_find(forest, keys) ==
    LET sub == {e \in forest : IsPrefix(keys, e.key)}
    IN IF sub = {} THEN None ELSE Some(sub)

\* SubTree::maximum_by: a greatest value of the sub-tree under the order of
\* last_commit's closure, `|c, d| c.first().compare_by_id(&d.first())`.
SubTree_maximum_by(sub) ==
    LET values == {e.value : e \in sub}
    IN CHOOSE v \in values : \A w \in values : compare_by_id(w[1], v[1]) # "Greater"

insert_paths_first(forest, paths, parent_commit) ==
    IF paths = <<>> THEN forest
    ELSE Forest_insert_with(forest, Head(paths), <<parent_commit>>, parent_commit)

\* The inner for loop of collect_file_history: the ordered commit is inserted
\* at every touched path, pushed behind the commits already there.
RECURSIVE insert_paths(_, _, _)
insert_paths(forest, paths, parent_commit) ==
    IF paths = <<>> THEN forest
    ELSE insert_paths(
             Forest_insert_with(forest, Head(paths), <<parent_commit>>, parent_commit),
             Tail(paths), parent_commit)

\* Repository::collect_file_history: `for (id, commit_result) in
\* revwalk.enumerate()`. fault = k > 0 makes the engine fail at the k-th item.
RECURSIVE collect_file_history(_, _, _, _)
collect_file_history(rw, file_histories, id, fault) ==
    LET n == revwalk_next(rw)
    IN IF n.item.tag = "None" THEN Ok(file_histories)
       ELSE IF id + 1 = fault THEN Err("Git")
       ELSE collect_file_history(
                n.rw,
                insert_paths(file_histories, diff_commit_and_parents(n.item.val),
                             OrderedCommit(id, n.item.val)),
                id + 1, fault)

\* Repository::file_history
file_history_from_one(commit, fault) ==
    collect_file_history(revwalk_push(commit), Forest_root, 1, fault)

file_history(commit, fault) ==
    collect_file_history(revwalk_push(commit), Forest_root, 0, fault)

\* Repository::commit_to_history, the whole call. fault = k > 0 makes the
\* engine fail at the k-th item of the revwalk.
RECURSIVE history_loop(_, _, _, _, _)
history_loop(rw, commits, head_id, k, fault) ==
    LET n == revwalk_next(rw)
    IN IF n.item.tag = "None" THEN Ok(commits)
       ELSE IF k = fault THEN Err("Git")
       ELSE history_loop(n.rw, history_push(commits, n.item.val, head_id),
                         head_id, k + 1, fault)

RECURSIVE history_loop_lossy(_, _, _, _, _)
history_loop_lossy(rw, commits, head_id, k, fault) ==
    LET n == revwalk_next(rw)
    IN IF n.item.tag = "None" THEN Ok(commits)
       ELSE IF k = fault THEN Ok(commits)
       ELSE history_loop_lossy(n.rw, history_push(commits, n.item.val, head_id),
                               head_id, k + 1, fault)

commit_to_history_lossy(head, fault) ==
    history_loop_lossy(revwalk_push(head), <<head>>, head, 1, fault)

commit_to_history(head, fault) ==
    history_loop(revwalk_push(head), <<head>>, head, 1, fault)

\* Repository::get_commit: find_commit fails for an id the repository lacks.
get_commit(oid) == IF oid \in Commits THEN Ok(oid) ELSE Err("Git")

\* ================================================================= Browser
\* Browser::get
Browser_get(h) == h

\* Browser::set
Browser_set_append(old, new) == old \o new

Browser_set(old, new) == new

\* git Browser::commit: the History and the result the call leaves.
Browser_commit(h, oid, fault) ==
    LET commit == get_commit(oid)
    IN IF commit.tag = "Err" THEN [history |-> h, res |-> commit]
       ELSE LET hist == commit_to_history(commit.val, fault)
            IN IF hist.tag = "Err" THEN [history |-> h, res |-> hist]
               ELSE [history |-> Browser_set(h, hist.val), res |-> Ok(<<>>)]

\* git Browser::last_commit
Browser_last_commit(h, path, fault) ==
    LET fh == file_history(Browser_get(h)[1], fault)
    IN IF fh.tag = "Err" THEN fh
       ELSE LET found == Forest_find(fh.val, path)
            IN Ok(IF found.tag = "None" THEN None
                  ELSE Some(SubTree_maximum_by(found.val)[1].commit))

\* ======================= the Browser's queries over a repository with trees
\* The commit graphs of this specification, each over all the commits: a
\* chain; a chain with the diamond A <- B, A <- C, B,C <- D on top; a chain
\* whose third commit merges the first two.
Chain == [c \in Commits |-> IF c = 1 THEN <<>> ELSE <<c - 1>>]

DiamondOnTop ==
    [c \in Commits |->
        IF c = 1 THEN <<>>
        ELSE IF c = NumCommits THEN <<c - 1, c - 2>>
        ELSE IF c = NumCommits - 1 THEN <<c - 2>>
        ELSE <<c - 1>>]

MergeBelow ==
    [c \in Commits |->
        IF c = 1 THEN <<>> ELSE IF c = 3 THEN <<2, 1>> ELSE <<c - 1>>]

Shapes == {Chain, DiamondOnTop, MergeBelow}

\* Commit times here: in commit order, or one of the oldest MaxSkew commits
\* carrying the newest time of all.
Skews == 0..MaxSkew

\* The trees: src/lib is present or absent in each commit independently;
\* README is in no commit, in every commit, or in the newest commit only.
ReadmeIn(pattern, c) ==
    IF pattern = "never" THEN 0
    ELSE IF pattern = "always" THEN 1
    ELSE IF c = NumCommits THEN 1 ELSE 0

Trees ==
    {[c \in Commits |-> [f \in Range(Files) |->
          IF f = "README" THEN ReadmeIn(pattern, c) ELSE lib[c]]] :
        pattern \in {"never", "always", "tip"}, lib \in [Commits -> {0, 1}]}

\* The paths last_commit is asked about: the two files, a directory, the
\* root, a path no tree holds.
QueryPaths ==
    {<<"~", "README">>, <<"~", "src", "lib">>, <<"~", "src">>, <<"~">>,
     <<"~", "missing">>}

\* The ids commit() is called with: the commits, and an id of no object.
Oids == Commits \cup {0}

\* The engine fails at the fault-th item of a revwalk, or (0) not at all.
Faults == 0..MaxFault

\* A repository, and no Browser opened on it yet.
InitLastTouch ==
    /\ ExtIdle
    /\ PathIdle
    /\ parents \in Shapes
    /\ \E skew \in Skews : ctime = Times(skew)
    /\ tree \in Trees
    /\ walk = None
    /\ history = <<>>
    /\ ret = None

\* Repository::head: HEAD is at the newest commit.
Repository_head(fault) == commit_to_history(NumCommits, fault)

\* Browser::new: the History of HEAD.
New ==
    /\ history = <<>>
    /\ history' = Repository_head(0).val
    /\ ret' = [tag |-> "Call", op |-> "new", arg |-> <<>>, res |-> Ok(<<>>)]
    /\ UNCHANGED <<extVars, pathVars, repoVars, walk>>

\* browser.commit(oid), the engine failing at the fault-th item or not at all
Commit(oid, fault) ==
    /\ history # <<>>
    /\ LET r == Browser_commit(history, oid, fault)
       IN /\ history' = r.history
          /\ ret' = [tag |-> "Call", op |-> "commit", arg |-> oid, res |-> r.res]
    /\ UNCHANGED <<extVars, pathVars, repoVars, walk>>

\* browser.get()
Get ==
    /\ history # <<>>
    /\ ret' = [tag |-> "Call", op |-> "get", arg |-> <<>>, res |-> Ok(Browser_get(history))]
    /\ UNCHANGED <<extVars, pathVars, repoVars, walk, history>>

\* browser.last_commit(path)
LastCommit(path, fault) ==
    /\ history # <<>>
    /\ ret' = [tag |-> "Call", op |-> "last_commit", arg |-> path,
               res |-> Browser_last_commit(history, path, fault)]
    /\ UNCHANGED <<extVars, pathVars, repoVars, walk, history>>

NextLastTouch ==
    \/ New
    \/ \E oid \in Oids, fault \in Faults : Commit(oid, fault)
    \/ Get
    \/ \E path \in QueryPaths : LastCommit(path, 0)

SpecLastTouch == InitLastTouch /\ [][NextLastTouch]_vars

\* ---- what the claims speak of, stated without the index
\* The order in which the engine's revwalk hands out the ancestry of start.
RECURSIVE revwalk_all(_)
revwalk_all(rw) ==
    LET n == revwalk_next(rw)
    IN IF n.item.tag = "None" THEN <<>> ELSE <<n.item.val>> \o revwalk_all(n.rw)

\* The rank of revision c in the traversal from start: 0 for start itself.
RankIn(order, c) == (CHOOSE i \in 1..Len(order) : order[i] = c) - 1

Rank(start, c) == RankIn(revwalk_all(revwalk_push(start)), c)

\* The files whose content in c differs from their content in some parent of
\* c (in the empty tree, for a commit with no parent).
ChangedFiles(c) ==
    {f \in Range(Files) :
        IF parents[c] = <<>> THEN tree[c][f] # 0
        ELSE \E i \in 1..Len(parents[c]) : tree[c][f] # tree[parents[c][i]][f]}

\* The diff of c against a parent changed path P: it changed the file at P or
\* a file beneath P.
Touches(c, P) == \E f \in ChangedFiles(c) : IsPrefix(P, <<"~">> \o Components(f))

\* The diff of c against a parent lists P itself as a changed path.
TouchesExactly(c, P) == \E f \in ChangedFiles(c) : P = <<"~">> \o Components(f)

LastTouch(start, P) ==
    LET touching == {c \in Ancestors(start) : Touches(c, P)}
        order == revwalk_all(revwalk_push(start))
    IN IF touching = {} THEN None
       ELSE Some(CHOOSE c \in touching :
                    \A d \in touching : RankIn(order, c) <= RankIn(order, d))

\* C1: last_commit(P) returns the revision of smallest rank among the
\* revisions reachable from the first revision of the current History whose
\* diff against a parent changed P, and none when no reachable revision did.
C1_LastCommitIsSmallestRank ==
    (ret.tag = "Call" /\ ret.op = "last_commit" /\ ret.res.tag = "Ok") =>
        ret.res.val = LastTouch(history[1], ret.arg)

\* On a chain started at its third commit C3, src/lib changed only in the
\* first commit C1: last_commit(src/lib) answered C1.
C1_Witness ==
    /\ parents = Chain
    /\ ret.tag = "Call"
    /\ history[1] = 3
    /\ ChangedFiles(1) = {"lib"} /\ ChangedFiles(2) = {} /\ ChangedFiles(3) = {}
    /\ ret.op = "last_commit" /\ ret.arg = <<"~", "src", "lib">>
    /\ ret.res = Ok(Some(1))

FileOf(P) == CHOOSE f \in Range(Files) : P = <<"~">> \o Components(f)
FilePaths == {<<"~">> \o Components(f) : f \in Range(Files)}

\* The Browser a caller gets by opening the repository and switching once to
\* revision c.
FreshBrowser(c) == Browser_commit(Repository_head(0).val, c, 0).history

\* C8: after any sequence of successful or failed switches and of queries,
\* get() and last_commit(P) return what a freshly opened Browser set once to
\* the same starting revision returns: nothing of the previous History or of
\* earlier queries survives.
C8_NoStaleState ==
    (ret.tag = "Call" /\ ret.res.tag = "Ok") =>
        /\ ret.op = "get" => ret.res.val = Browser_get(FreshBrowser(history[1]))
        /\ ret.op = "last_commit" =>
               ret.res = Browser_last_commit(FreshBrowser(history[1]), ret.arg, 0)
        /\ ret.op = "commit" => history = FreshBrowser(ret.arg)

\* After a switch away from HEAD, a failed switch and a query on another
\* path, last_commit answered a revision.
C8_Witness ==
    /\ ret.tag = "Call" /\ ret.op = "last_commit"
    /\ history[1] # NumCommits
    /\ Len(history) > 1
    /\ ret.res.tag = "Ok" /\ ret.res.val.tag = "Some"

\* The diamond A <- B, A <- C, B,C <- D.
DiamondA == NumCommits - 3
DiamondB == NumCommits - 2
DiamondC == NumCommits - 1
DiamondD == NumCommits

\* Revision c itself changed file f: its content of f is that of none of its
\* parents (of the empty tree, for a commit with no parent).
OwnChange(c, f) ==
    IF parents[c] = <<>> THEN tree[c][f] # 0
    ELSE \A i \in 1..Len(parents[c]) : tree[c][f] # tree[parents[c][i]][f]

Changers(start, f) == {c \in Ancestors(start) : OwnChange(c, f)}

\* C9: on the diamond traversed from D, last-touch of a path changed only by
\* B is B, of a path changed by no revision is none, of a path changed by
\* both B and D is D.
C9_DiamondLastTouch ==
    (/\ parents = DiamondOnTop
     /\ ret.tag = "Call" /\ ret.op = "last_commit" /\ ret.res.tag = "Ok"
     /\ history[1] = DiamondD
     /\ ret.arg \in FilePaths) =>
        LET changers == Changers(DiamondD, FileOf(ret.arg))
        IN /\ changers = {DiamondB} => ret.res.val = Some(DiamondB)
           /\ changers = {} => ret.res.val = None
           /\ {DiamondB, DiamondD} \subseteq changers => ret.res.val = Some(DiamondD)

\* C10 as claimed: last_commit(P) answers none when P itself is a changed
\* path of no visited revision's diff, even when P is a directory prefix of
\* changed paths.
C10_ExactPathOnly ==
    (/\ ret.tag = "Call" /\ ret.op = "last_commit" /\ ret.res.tag = "Ok"
     /\ \A c \in Ancestors(history[1]) : ~TouchesExactly(c, ret.arg)) =>
        ret.res.val = None

\* C10 as amended: last_commit(P) answers none exactly when no visited
\* revision's diff holds P or a path beneath P; for a directory prefix of
\* changed paths it answers a revision.
C10_PrefixLookup ==
    (ret.tag = "Call" /\ ret.op = "last_commit" /\ ret.res.tag = "Ok") =>
        (ret.res.val = None <=>
            \A c \in Ancestors(history[1]) : ~Touches(c, ret.arg))

\* last_commit of the directory src, which no diff lists, answered a revision.
C10_Witness ==
    /\ ret.tag = "Call" /\ ret.op = "last_commit" /\ ret.res.tag = "Ok"
    /\ ret.arg = <<"~", "src">>
    /\ \A c \in Ancestors(history[1]) : ~TouchesExactly(c, ret.arg)
    /\ ret.res.val.tag = "Some"

\* ================== the Browser's switches over a repository with references
\* The references of the repository, in the order in which a short name is
\* tried against them (refs/, refs/tags/, refs/heads/, refs/remotes/): a
\* notes reference, a tag, three local branches of which one carries the
\* tag's short name, a remote branch.
References ==
    << [short |-> "notes/commits", name |-> "refs/",         target |-> 2],
       [short |-> "v1",            name |-> "refs/tags/",    target |-> 1],
       [short |-> "master",        name |-> "refs/heads/",   target |-> NumCommits],
       [short |-> "dev",           name |-> "refs/heads/",   target |-> NumCommits - 1],
       [short |-> "v1",            name |-> "refs/heads/",   target |-> 2],
       [short |-> "origin/dev",    name |-> "refs/remotes/", target |-> NumCommits - 1] >>

\* The names a caller passes: the short names above, and one of no reference.
Names == {"notes/commits", "v1", "master", "dev", "origin/dev", "gone"}

\* git2::Repository::resolve_reference_from_short_name
resolve_reference_from_short_name(name) ==
    LET hits == {i \in DOMAIN References : References[i].short = name}
    IN IF hits = {} THEN Err("Git")
       ELSE Ok(References[CHOOSE i \in hits : \A j \in hits : i <= j])

\* git2::Reference::is_branch, is_remote, is_tag
Reference_is_branch(reference) == reference.name = "refs/heads/"
Reference_is_remote(reference) == reference.name = "refs/remotes/"
Reference_is_tag(reference) == reference.name = "refs/tags/"

\* RevObject::from_revparse: the object a revspec names.
RevObject_from_revparse(spec) ==
    LET reference == resolve_reference_from_short_name(spec)
    IN IF reference.tag = "Err" THEN Err("RevParseFailure")
       ELSE Ok([oid |-> reference.val.target])

\* RevObject::into_commit: fails for an object the repository lacks.
RevObject_into_commit(rev) == get_commit(rev.oid)

\* Repository::rev
Repository_rev(spec) == RevObject_from_revparse(spec)

\* Repository::revspec
Repository_revspec(spec, fault) ==
    LET rev == Repository_rev(spec)
    IN IF rev.tag = "Err" THEN rev
       ELSE LET commit == RevObject_into_commit(rev.val)
            IN IF commit.tag = "Err" THEN commit
               ELSE commit_to_history(commit.val, fault)

\* impl VCS for Repository: get_history
get_history(history_id, fault) == Repository_revspec(history_id, fault)

\* The tail of every switch: `let history = ...?; self.set(history); Ok(())`.
set_history(h, hist) ==
    IF hist.tag = "Err" THEN [history |-> h, res |-> hist]
    ELSE [history |-> Browser_set(h, hist.val), res |-> Ok(<<>>)]

\* git Browser::head
Browser_head(h, fault) == set_history(h, Repository_head(fault))

\* git Browser::branch
Browser_branch_unchecked(h, branch_name, fault) ==
    LET reference == resolve_reference_from_short_name(branch_name)
    IN IF reference.tag = "Err" THEN [history |-> h, res |-> reference]
       ELSE set_history(h, get_history(branch_name, fault))

Browser_branch(h, branch_name, fault) ==
    LET reference == resolve_reference_from_short_name(branch_name)
    IN IF reference.tag = "Err" THEN [history |-> h, res |-> reference]
       ELSE IF ~(Reference_is_branch(reference.val) \/ Reference_is_remote(reference.val))
            THEN [history |-> h, res |-> Err("NotBranch")]
       ELSE set_history(h, get_history(branch_name, fault))

\* git Browser::tag
Browser_tag(h, tag_name, fault) ==
    LET reference == resolve_reference_from_short_name(tag_name)
    IN IF reference.tag = "Err" THEN [history |-> h, res |-> reference]
       ELSE IF ~Reference_is_tag(reference.val)
            THEN [history |-> h, res |-> Err("NotTag")]
       ELSE set_history(h, get_history(tag_name, fault))

\* git Browser::revspec
Browser_revspec(h, spec, fault) == set_history(h, get_history(spec, fault))

\* git Browser::rev
Browser_rev(h, rev, fault) ==
    LET commit == RevObject_into_commit(rev)
    IN IF commit.tag = "Err" THEN [history |-> h, res |-> commit]
       ELSE set_history(h, commit_to_history(commit.val, fault))

\* The RevObjects rev() is called with: one per commit, and one of an object
\* this repository lacks.
RevObjects == {[oid |-> oid] : oid \in Oids}

\* A repository whose trees are all empty, and no Browser opened on it yet.
InitSwitch ==
    /\ ExtIdle
    /\ PathIdle
    /\ parents \in Shapes
    /\ \E skew \in Skews : ctime = Times(skew)
    /\ tree = [c \in Commits |-> EmptyTree]
    /\ walk = None
    /\ history = <<>>
    /\ ret = None

\* One call of a switch: the History and the result it leaves.
Switch(op, arg, r) ==
    /\ history # <<>>
    /\ history' = r.history
    /\ ret' = [tag |-> "Call", op |-> op, arg |-> arg, res |-> r.res]
    /\ UNCHANGED <<extVars, pathVars, repoVars, walk>>

ToHead(fault) == Switch("head", <<>>, Browser_head(history, fault))
Branch(name, fault) == Switch("branch", name, Browser_branch(history, name, fault))
Tag(name, fault) == Switch("tag", name, Browser_tag(history, name, fault))
Revspec(spec, fault) == Switch("revspec", spec, Browser_revspec(history, spec, fault))
Rev(rev, fault) == Switch("rev", rev, Browser_rev(history, rev, fault))

NextSwitch ==
    \/ New
    \/ \E fault \in Faults : ToHead(fault)
    \/ \E name \in Names, fault \in Faults : Branch(name, fault)
    \/ \E name \in Names, fault \in Faults : Tag(name, fault)
    \/ \E oid \in Oids, fault \in Faults : Commit(oid, fault)
    \/ \E spec \in Names, fault \in Faults : Revspec(spec, fault)
    \/ \E rev \in RevObjects, fault \in Faults : Rev(rev, fault)
    \/ Get

SpecSwitch == InitSwitch /\ [][NextSwitch]_vars

\* ---- what the claims speak of
SwitchOps == {"head", "branch", "tag", "commit", "revspec", "rev"}

\* The reference a short name resolves to.
Resolves(name) == \E i \in DOMAIN References : References[i].short = name
Resolved(name) ==
    References[CHOOSE i \in DOMAIN References :
                   /\ References[i].short = name
                   /\ \A j \in 1..(i - 1) : References[j].short # name]

\* The revision a successful switch was aimed at.
SwitchTarget(call) ==
    CASE call.op = "head" -> NumCommits
      [] call.op = "commit" -> call.arg
      [] call.op = "rev" -> call.arg.oid
      [] OTHER -> Resolved(call.arg).target

\* h is the complete History of revision c: c first, then every other
\* ancestor of c, each once.
IsHistoryOf(h, c) ==
    /\ h # <<>>
    /\ h[1] = c
    /\ Range(h) = Ancestors(c)
    /\ NoDuplicates(h)

\* C6: every switch (head, branch, tag, commit, revspec, rev) is atomic: when
\* it fails the installed History is exactly what it was before the call,
\* when it succeeds the installed History is the complete History of the
\* target; a partially built History is never installed.
C6_SwitchAtomic ==
    [][(ret'.tag = "Call" /\ ret'.op \in SwitchOps) =>
          IF ret'.res.tag = "Err" THEN history' = history
          ELSE IsHistoryOf(history', SwitchTarget(ret'))]_vars

\* branch("master") failed inside the engine's walk, and the History of an
\* earlier switch to commit 1 is still installed.
C6_Witness ==
    /\ ret.tag = "Call" /\ ret.op = "branch"
    /\ ret.arg = "master"
    /\ ret.res = Err("Git")
    /\ history = <<1>>

\* C7: branch(name) (tag(name)) on a name that resolves to a reference that
\* is not a local or remote branch (not a tag) fails with NotBranch (NotTag)
\* and leaves the History as it was; on a reference of the right kind the
\* switch goes on, and installs the History of the reference's target unless
\* the engine fails.
C7_KindGatesSwitch ==
    [][(ret'.tag = "Call" /\ ret'.op \in {"branch", "tag"} /\ Resolves(ret'.arg)) =>
          LET kind == Resolved(ret'.arg).name
              right == IF ret'.op = "branch"
                       THEN kind \in {"refs/heads/", "refs/remotes/"}
                       ELSE kind = "refs/tags/"
              wrong == IF ret'.op = "branch" THEN "NotBranch" ELSE "NotTag"
          IN IF ~right THEN ret'.res = Err(wrong) /\ history' = history
             ELSE \/ /\ ret'.res.tag = "Ok"
                     /\ IsHistoryOf(history', Resolved(ret'.arg).target)
                  \/ /\ ret'.res = Err("Git")
                     /\ history' = history]_vars

\* branch("v1") met the tag v1 and failed with NotBranch, and the History of
\* an earlier switch to the remote branch origin/dev is still installed.
C7_Witness ==
    /\ ret.tag = "Call" /\ ret.op = "branch"
    /\ ret.arg = "v1"
    /\ ret.res = Err("NotBranch")
    /\ history[1] = NumCommits - 1

\* ------------------------------------------- last_commit of a directory
\* The directories last_commit is asked about: src, and the root.
DirPaths == {<<"~", "src">>, <<"~">>}

\* Revision c touched a file located beneath directory D.
TouchesBeneath(c, D) ==
    \E f \in ChangedFiles(c) :
        LET p == <<"~">> \o Components(f)
        IN Len(D) < Len(p) /\ IsPrefix(D, p)

\* C11: for a directory D, the root included, last_commit(D) returns the
\* first revision of the traversal (the History in its order) that touched a
\* file beneath D, and none when no revision did; for the root every revision
\* before the one returned changed no file at all.
C11_DirectoryLastCommit ==
    (/\ ret.tag = "Call" /\ ret.op = "last_commit" /\ ret.res.tag = "Ok"
     /\ ret.arg \in DirPaths) =>
        LET at == {i \in 1..Len(history) : TouchesBeneath(history[i], ret.arg)}
        IN IF at = {} THEN ret.res.val = None
           ELSE LET first == CHOOSE i \in at : \A j \in at : i <= j
                IN /\ ret.res.val = Some(history[first])
                   /\ ret.arg = <<"~">> =>
                          \A j \in 1..(first - 1) : ChangedFiles(history[j]) = {}

\* last_commit of the root answered a revision below the start of the
\* History, while README and src/lib were last touched by different revisions.
C11_Witness ==
    /\ ret.tag = "Call" /\ ret.op = "last_commit" /\ ret.res.tag = "Ok"
    /\ ret.arg = <<"~">>
    /\ ret.res.val.tag = "Some"
    /\ ret.res.val.val # history[1]
    /\ LastTouch(history[1], <<"~", "README">>).tag = "Some"
    /\ LastTouch(history[1], <<"~", "src", "lib">>).tag = "Some"
    /\ LastTouch(history[1], <<"~", "README">>) # LastTouch(history[1], <<"~", "src", "lib">>)

\* ============================================== History<A>, the operations
\* The artifacts: plain identifiers.
Artifacts == 1..NumArtifacts

\* History::new
History_new(a) == <<a>>

\* History::push
History_push_unique(h, a) == IF a \in Range(h) THEN h ELSE Append(h, a)

History_push(h, a) == Append(h, a)

\* The closures map is called with: the next identifier round the clock, and
\* a constant.
MapFns == {"succ", "const"}
Apply(f, a) == IF f = "succ" THEN (a % NumArtifacts) + 1 ELSE 1

\* History::map
History_map(h, f) == [i \in 1..Len(h) |-> Apply(f, h[i])]

\* Iterator::skip_while(|current| *current != *artifact)
RECURSIVE skip_while(_, _)
skip_while(s, artifact) ==
    IF s = <<>> THEN <<>>
    ELSE IF Head(s) # artifact THEN skip_while(Tail(s), artifact)
    ELSE s

\* NonEmpty::from_slice
NonEmpty_from_slice(slice) == IF slice = <<>> THEN None ELSE Some(slice)

\* History::find_suffix
History_find_suffix_or_self(h, artifact) ==
    LET rest == skip_while(h, artifact)
    IN IF rest = <<>> THEN Some(h) ELSE Some(rest)

History_find_suffix_after(h, artifact) ==
    LET rest == skip_while(h, artifact)
    IN IF rest = <<>> THEN None ELSE NonEmpty_from_slice(Tail(rest))

History_find_suffix(h, artifact) == NonEmpty_from_slice(skip_while(h, artifact))

\* No History made yet.
InitHistoryOps ==
    /\ ExtIdle
    /\ PathIdle
    /\ parents = <<>>
    /\ ctime = <<>>
    /\ tree = <<>>
    /\ walk = None
    /\ history = <<>>
    /\ ret = None

\* History::new(a)
HNew(a) ==
    /\ history' = History_new(a)
    /\ ret' = [tag |-> "Call", op |-> "new", arg |-> a, res |-> None]
    /\ UNCHANGED <<extVars, pathVars, repoVars, walk>>

\* history.push(a)
HPush(a) ==
    /\ history # <<>>
    /\ Len(history) < MaxHistLen
    /\ history' = History_push(history, a)
    /\ ret' = [tag |-> "Call", op |-> "push", arg |-> a, res |-> None]
    /\ UNCHANGED <<extVars, pathVars, repoVars, walk>>

\* history = history.map(f)
HMap(f) ==
    /\ history # <<>>
    /\ history' = History_map(history, f)
    /\ ret' = [tag |-> "Call", op |-> "map", arg |-> f, res |-> None]
    /\ UNCHANGED <<extVars, pathVars, repoVars, walk>>

\* history.find_suffix(&a)
HFindSuffix(a) ==
    /\ history # <<>>
    /\ ret' = [tag |-> "Call", op |-> "find_suffix", arg |-> a,
               res |-> History_find_suffix(history, a)]
    /\ UNCHANGED <<extVars, pathVars, repoVars, walk, history>>

\* The caller goes on with the History find_suffix returned.
HTake ==
    /\ ret.tag = "Call" /\ ret.op = "find_suffix" /\ ret.res.tag = "Some"
    /\ history' = ret.res.val
    /\ ret' = [tag |-> "Call", op |-> "take", arg |-> ret.arg, res |-> None]
    /\ UNCHANGED <<extVars, pathVars, repoVars, walk>>

NextHistoryOps ==
    \/ \E a \in Artifacts : HNew(a)
    \/ \E a \in Artifacts : HPush(a)
    \/ \E f \in MapFns : HMap(f)
    \/ \E a \in Artifacts : HFindSuffix(a)
    \/ HTake

SpecHistoryOps == InitHistoryOps /\ [][NextHistoryOps]_vars

\* ---- what the claims speak of
\* The positions of h that hold a.
Occurrences(h, a) == {i \in 1..Len(h) : h[i] = a}
FirstOccurrence(h, a) == CHOOSE i \in Occurrences(h, a) : \A j \in Occurrences(h, a) : i <= j

\* C12: h.find_suffix(a) returns the History made of the first artifact of h
\* equal to a and every artifact after it, in order (find_suffix of h's own
\* first artifact returns h); it returns no value, never h itself, when no
\* artifact of h equals a.
C12_FindSuffix ==
    (ret.tag = "Call" /\ ret.op = "find_suffix") =>
        IF Occurrences(history, ret.arg) = {} THEN ret.res = None
        ELSE /\ ret.res = Some(SubSeq(history, FirstOccurrence(history, ret.arg), Len(history)))
             /\ ret.res.val[1] = ret.arg
             /\ ret.arg = history[1] => ret.res.val = history

\* find_suffix(2) on a History holding 2 twice, not at its head, returned the
\* suffix from the first of them.
C12_Witness ==
    /\ ret.tag = "Call" /\ ret.op = "find_suffix" /\ ret.arg = 2
    /\ history = <<1, 2, 3, 2>>
    /\ ret.res = Some(<<2, 3, 2>>)

\* C13 as claimed: find_suffix(a) drops the matched artifact together with
\* everything before it, and fails when a is absent.
C13_DropsMatch ==
    (ret.tag = "Call" /\ ret.op = "find_suffix") =>
        IF Occurrences(history, ret.arg) = {} THEN ret.res = None
        ELSE /\ ret.res.tag = "Some"
             /\ Len(ret.res.val) = Len(history) - FirstOccurrence(history, ret.arg)
             /\ \A k \in 1..Len(ret.res.val) :
                    ret.res.val[k] = history[FirstOccurrence(history, ret.arg) + k]

\* C13 as amended: find_suffix(a) drops exactly the artifacts before the
\* first match and keeps the match as the head of the History returned; it
\* fails when a is absent.
C13_KeepsMatch ==
    (ret.tag = "Call" /\ ret.op = "find_suffix") =>
        IF Occurrences(history, ret.arg) = {} THEN ret.res = None
        ELSE /\ ret.res.tag = "Some"
             /\ Len(ret.res.val) = Len(history) - FirstOccurrence(history, ret.arg) + 1
             /\ \A k \in 1..Len(ret.res.val) :
                    ret.res.val[k] = history[FirstOccurrence(history, ret.arg) + k - 1]

\* find_suffix(3) on <<1, 2, 3>> returned <<3>>: the match is kept.
C13_Witness ==
    /\ ret.tag = "Call" /\ ret.op = "find_suffix" /\ ret.arg = 3
    /\ history = <<1, 2, 3>>
    /\ ret.res = Some(<<3>>)

\* C19 as claimed: no History ever holds two artifacts with the same
\* identifier, whatever operations made it.
C19_NoDuplicateIds ==
    NoDuplicates(history)
    /\ ((ret.tag = "Call" /\ ret.op = "find_suffix" /\ ret.res.tag = "Some") =>
            NoDuplicates(ret.res.val))

\* C19 as amended: new makes a History without duplicates, and find_suffix
\* of a History without duplicates returns one without duplicates; push and
\* map do not look at identifiers: on a History without duplicates push(a)
\* leaves one exactly when a was not in it, and map(f) exactly when f sends
\* its artifacts to different artifacts.
C19_DuplicatesOnlyByPushOrMap ==
    [][(ret'.tag = "Call" /\ NoDuplicates(history)) =>
          /\ ret'.op = "new" => NoDuplicates(history')
          /\ ret'.op = "find_suffix" =>
                 (ret'.res.tag = "Some" => NoDuplicates(ret'.res.val))
          /\ ret'.op = "take" => NoDuplicates(history')
          /\ ret'.op = "push" =>
                 (NoDuplicates(history') <=> ret'.arg \notin Range(history))
          /\ ret'.op = "map" =>
                 (NoDuplicates(history') <=>
                     \A i, j \in 1..Len(history) :
                         i # j => Apply(ret'.arg, history[i]) # Apply(ret'.arg, history[j]))]_vars

\* push(1) on the History <<1, 2>> left a History holding 1 twice.
C19_Witness ==
    /\ ret.tag = "Call" /\ ret.op = "push" /\ ret.arg = 1
    /\ history = <<1, 2, 1>>

\* ============================================= Diff::try_from(git2::Diff)
\* ---- the raw diff the engine hands over
\* git2::DiffLine: its origin and its two optional line numbers. The three
\* "no newline at end of file" markers carry no line number.
RawLines ==
    { [origin |-> "Context",      old_lineno |-> Some(1), new_lineno |-> Some(1)],
      [origin |-> "Addition",     old_lineno |-> None,    new_lineno |-> Some(1)],
      [origin |-> "Deletion",     old_lineno |-> Some(1), new_lineno |-> None],
      [origin |-> "Context",      old_lineno |-> None,    new_lineno |-> None],
      [origin |-> "ContextEOFNL", old_lineno |-> None,    new_lineno |-> None],
      [origin |-> "AddEOFNL",     old_lineno |-> None,    new_lineno |-> None],
      [origin |-> "DeleteEOFNL",  old_lineno |-> None,    new_lineno |-> None] }

\* git2::Delta, the statuses met here: the five handled, and two others.
Statuses == {"Added", "Deleted", "Modified", "Renamed", "Copied", "Typechange", "Untracked"}

\* The file names of the deltas, by position in the diff.
DeltaNames == <<"f1", "f2", "f3", "f4", "f5">>

\* A patch of MaxHunks hunks holding the given lines, cut at the given places.
CutsOf(n) ==
    {c \in [1..(MaxHunks - 1) -> 0..n] : \A i, j \in DOMAIN c : i <= j => c[i] <= c[j]}
PatchOf(lines, c) ==
    [h \in 1..MaxHunks |->
        [header |-> h,
         lines |-> SubSeq(lines,
                          (IF h = 1 THEN 0 ELSE c[h - 1]) + 1,
                          IF h = MaxHunks THEN Len(lines) ELSE c[h])]]

\* A delta: status, the paths of its two files (None: not available), the
\* binary flag of its new file, and what Patch::from_diff gives for it.
Delta(status, i, has_path, binary, patch) ==
    [status |-> status,
     old_file |-> [path |-> IF has_path THEN Some(<<"old", DeltaNames[i]>>) ELSE None],
     new_file |-> [path |-> IF has_path THEN Some(<<DeltaNames[i]>>) ELSE None,
                   is_binary |-> binary],
     patch |-> patch]

\* What a delta of a diff of many deltas is like, but for its status: without
\* a patch (binary or not), with a patch of one added line, with the engine
\* failing to give a patch, without paths.
OneAddition ==
    <<[header |-> 1,
       lines |-> <<[origin |-> "Addition", old_lineno |-> None, new_lineno |-> Some(1)]>>]>>
DeltaShapes == {"text", "binary", "patch", "failing", "pathless"}
SimpleDelta(status, i, shape) ==
    Delta(status, i, shape # "pathless", shape = "binary",
          IF shape = "patch" THEN Ok(Some(OneAddition))
          ELSE IF shape = "failing" THEN Err("Git")
          ELSE Ok(None))

\* The diffs handed over: up to MaxDeltas deltas of any status and shape, or
\* one Modified delta with any patch of up to MaxLines lines.
IsRawDiff(raw) ==
    \/ \E n \in 0..MaxDeltas :
          \E status \in [1..n -> Statuses], shape \in [1..n -> DeltaShapes] :
              raw = [i \in 1..n |-> SimpleDelta(status[i], i, shape[i])]
    \/ \E n \in 0..MaxLines :
          \E lines \in [1..n -> RawLines], c \in CutsOf(n) :
              raw = <<Delta("Modified", 1, TRUE, FALSE, Ok(Some(PatchOf(lines, c))))>>

\* ---- the conversion
\* impl TryFrom<git2::DiffLine> for LineDiff
LineDiff_try_from_swapped(line) ==
    IF line.old_lineno.tag = "None" /\ line.new_lineno.tag = "Some"
    THEN Ok([tag |-> "Deletion", line_num |-> line.new_lineno.val])
    ELSE IF line.old_lineno.tag = "Some" /\ line.new_lineno.tag = "None"
    THEN Ok([tag |-> "Addition", line_num |-> line.old_lineno.val])
    ELSE IF line.old_lineno.tag = "Some" /\ line.new_lineno.tag = "Some"
    THEN Ok([tag |-> "Context", line_num_old |-> line.old_lineno.val,
             line_num_new |-> line.new_lineno.val])
    ELSE Err("LineDiff::Invalid")

LineDiff_try_from(line) ==
    IF line.old_lineno.tag = "None" /\ line.new_lineno.tag = "Some"
    THEN Ok([tag |-> "Addition", line_num |-> line.new_lineno.val])
    ELSE IF line.old_lineno.tag = "Some" /\ line.new_lineno.tag = "None"
    THEN Ok([tag |-> "Deletion", line_num |-> line.old_lineno.val])
    ELSE IF line.old_lineno.tag = "Some" /\ line.new_lineno.tag = "Some"
    THEN Ok([tag |-> "Context", line_num_old |-> line.old_lineno.val,
             line_num_new |-> line.new_lineno.val])
    ELSE Err("LineDiff::Invalid")

\* Diff::new and the add_* methods of Diff: one list per kind of change.
Diff_new == [created |-> <<>>, deleted |-> <<>>, moved |-> <<>>, copied |-> <<>>,
             modified |-> <<>>]
add_created_file(diff, p, file_diff) ==
    [diff EXCEPT !.created = Append(@, [path |-> p, diff |-> file_diff])]
add_deleted_file(diff, p, file_diff) ==
    [diff EXCEPT !.deleted = Append(@, [path |-> p, diff |-> file_diff])]
add_modified_file(diff, p, hunks, eof) ==
    [diff EXCEPT !.modified =
        Append(@, [path |-> p, diff |-> [tag |-> "Plain", hunks |-> hunks], eof |-> eof])]
add_modified_binary_file(diff, p) ==
    [diff EXCEPT !.modified =
        Append(@, [path |-> p, diff |-> [tag |-> "Binary"], eof |-> None])]
add_moved_file(diff, old_path, new_path) ==
    [diff EXCEPT !.moved = Append(@, [old_path |-> old_path, new_path |-> new_path])]
add_copied_file(diff, old_path, new_path) ==
    [diff EXCEPT !.copied = Append(@, [old_path |-> old_path, new_path |-> new_path])]

\* Hunks::try_from(patch): every line of every hunk through LineDiff::try_from.
RECURSIVE plain_lines(_, _)
plain_lines(raw, lines) ==
    IF raw = <<>> THEN Ok(lines)
    ELSE LET line == LineDiff_try_from(Head(raw))
         IN IF line.tag = "Err" THEN line
            ELSE plain_lines(Tail(raw), Append(lines, line.val))

RECURSIVE Hunks_try_from(_)
Hunks_try_from(patch) ==
    IF patch = <<>> THEN Ok(<<>>)
    ELSE LET lines == plain_lines(Head(patch).lines, <<>>)
         IN IF lines.tag = "Err" THEN lines
            ELSE LET rest == Hunks_try_from(Tail(patch))
                 IN IF rest.tag = "Err" THEN rest
                    ELSE Ok(<<[header |-> Head(patch).header, lines |-> lines.val]>>
                            \o rest.val)

\* The `for l in 0..hunk_lines` loop of a Modified delta: the markers set the
\* two flags and are skipped, every other line is translated and pushed.
RECURSIVE modified_lines(_, _)
modified_lines(raw, st) ==
    IF raw = <<>> THEN Ok(st)
    ELSE IF Head(raw).origin = "ContextEOFNL"
    THEN modified_lines(Tail(raw), [st EXCEPT !.new_missing_eof = TRUE,
                                              !.old_missing_eof = TRUE])
    ELSE IF Head(raw).origin = "AddEOFNL"
    THEN modified_lines(Tail(raw), [st EXCEPT !.old_missing_eof = TRUE])
    ELSE IF Head(raw).origin = "DeleteEOFNL"
    THEN modified_lines(Tail(raw), [st EXCEPT !.new_missing_eof = TRUE])
    ELSE LET line == LineDiff_try_from(Head(raw))
         IN IF line.tag = "Err" THEN line
            ELSE modified_lines(Tail(raw), [st EXCEPT !.lines = Append(@, line.val)])

\* The `for h in 0..patch.num_hunks()` loop of a Modified delta.
RECURSIVE modified_hunks(_, _)
modified_hunks(patch, st) ==
    IF patch = <<>> THEN Ok(st)
    ELSE LET r == modified_lines(Head(patch).lines,
                      [lines |-> <<>>, old_missing_eof |-> st.old_missing_eof,
                       new_missing_eof |-> st.new_missing_eof])
         IN IF r.tag = "Err" THEN r
            ELSE modified_hunks(Tail(patch),
                     [hunks |-> Append(st.hunks, [header |-> Head(patch).header,
                                                  lines |-> r.val.lines]),
                      old_missing_eof |-> r.val.old_missing_eof,
                      new_missing_eof |-> r.val.new_missing_eof])

\* `let eof = match (old_missing_eof, new_missing_eof)`
eof_swapped(old_missing_eof, new_missing_eof) ==
    IF old_missing_eof /\ new_missing_eof THEN Some("BothMissing")
    ELSE IF old_missing_eof THEN Some("NewMissing")
    ELSE IF new_missing_eof THEN Some("OldMissing")
    ELSE None

eof_of(old_missing_eof, new_missing_eof) ==
    IF old_missing_eof /\ new_missing_eof THEN Some("BothMissing")
    ELSE IF old_missing_eof THEN Some("OldMissing")
    ELSE IF new_missing_eof THEN Some("NewMissing")
    ELSE None

\* The last two branches of the Modified arm: no patch for the delta.
modified_without_patch_lenient(diff, p, is_binary) ==
    Ok(add_modified_binary_file(diff, p))

modified_without_patch(diff, p, is_binary) ==
    IF is_binary THEN Ok(add_modified_binary_file(diff, p))
    ELSE Err([tag |-> "PatchUnavailable", path |-> p])

\* `diff_file.path().ok_or(error::Diff::PathUnavailable)?` and
\* `Path::try_from(path.to_path_buf())?`
path_of(diff_file) ==
    IF diff_file.path.tag = "None" THEN Err("PathUnavailable")
    ELSE Ok(Path_from_PathBuf(diff_file.path.val))

\* One pass of the `for (idx, delta) in git_diff.deltas().enumerate()` loop:
\* the Diff with the delta recorded, or the error the conversion returns.
\* The last arm of the match: `status => return Err(DeltaUnhandled(status))`.
unhandled_skipped(diff, status) == Ok(diff)

unhandled(diff, status) == Err([tag |-> "DeltaUnhandled", status |-> status])

convert_delta(diff, delta) ==
    IF delta.status = "Added" \/ delta.status = "Deleted"
    THEN LET p == path_of(IF delta.status = "Added" THEN delta.new_file
                          ELSE delta.old_file)
         IN IF p.tag = "Err" THEN p
            ELSE IF delta.patch.tag = "Err" THEN delta.patch
            ELSE LET hunks == IF delta.patch.val.tag = "Some"
                              THEN Hunks_try_from(delta.patch.val.val)
                              ELSE Ok(<<>>)
                     file_diff == [tag |-> "Plain", hunks |-> hunks.val]
                 IN IF hunks.tag = "Err" THEN hunks
                    ELSE IF delta.status = "Added"
                    THEN Ok(add_created_file(diff, p.val, file_diff))
                    ELSE Ok(add_deleted_file(diff, p.val, file_diff))
    ELSE IF delta.status = "Modified"
    THEN LET p == path_of(delta.new_file)
         IN IF p.tag = "Err" THEN p
            ELSE IF delta.patch.tag = "Err" THEN delta.patch
            ELSE IF delta.patch.val.tag = "Some"
            THEN LET r == modified_hunks(delta.patch.val.val,
                              [hunks |-> <<>>, old_missing_eof |-> FALSE,
                               new_missing_eof |-> FALSE])
                 IN IF r.tag = "Err" THEN r
                    ELSE Ok(add_modified_file(diff, p.val, r.val.hunks,
                                eof_of(r.val.old_missing_eof, r.val.new_missing_eof)))
            ELSE modified_without_patch(diff, p.val, delta.new_file.is_binary)
    ELSE IF delta.status = "Renamed" \/ delta.status = "Copied"
    THEN LET old == path_of(delta.old_file)
             new == path_of(delta.new_file)
         IN IF old.tag = "Err" THEN old
            ELSE IF new.tag = "Err" THEN new
            ELSE IF delta.status = "Renamed"
            THEN Ok(add_moved_file(diff, old.val, new.val))
            ELSE Ok(add_copied_file(diff, old.val, new.val))
    ELSE unhandled(diff, delta.status)

\* impl TryFrom<git2::Diff> for Diff
RECURSIVE convert_deltas(_, _)
convert_deltas(diff, pending) ==
    IF pending = <<>> THEN Ok(diff)
    ELSE LET r == convert_delta(diff, Head(pending))
         IN IF r.tag = "Err" THEN r ELSE convert_deltas(r.val, Tail(pending))

Diff_try_from(raw) == convert_deltas(Diff_new, raw)

\* A raw diff, not converted yet.
InitDiff ==
    /\ PathIdle
    /\ parents = <<>>
    /\ ctime = <<>>
    /\ tree = <<>>
    /\ walk = None
    /\ history = <<>>
    /\ ret = None
    /\ IsRawDiff(git_diff)
    /\ diffRes = None
    /\ rendered = <<>>
    /\ pathObj = <<>>
    /\ WalkIdle

\* Diff::try_from(git_diff)
Convert ==
    /\ diffRes = None
    /\ diffRes' = Diff_try_from(git_diff)
    /\ UNCHANGED <<pathVars, repoVars, walk, history, ret, git_diff, rendered, pathObj, entries, treeRes, threads>>

NextDiff == Convert

SpecDiff == InitDiff /\ [][NextDiff]_vars

\* ---- what the claims speak of
Handled == {"Added", "Deleted", "Modified", "Renamed", "Copied"}
DiffSets == {"created", "deleted", "modified", "moved", "copied"}

\* The set a delta of a handled status belongs to.
SetOf(status) ==
    CASE status = "Added" -> "created"
      [] status = "Deleted" -> "deleted"
      [] status = "Modified" -> "modified"
      [] status = "Renamed" -> "moved"
      [] status = "Copied" -> "copied"

\* The Paths of the i-th delta's two files.
NewPathOf(i) == <<"~", DeltaNames[i]>>
OldPathOf(i) == <<"~", "old", DeltaNames[i]>>

\* The entries of a set of the Diff that record the i-th delta.
EntriesOf(diff, set, i) ==
    {k \in 1..Len(diff[set]) :
        CASE set \in {"created", "modified"} -> diff[set][k].path = NewPathOf(i)
          [] set = "deleted" -> diff[set][k].path = OldPathOf(i)
          [] OTHER -> /\ diff[set][k].old_path = OldPathOf(i)
                      /\ diff[set][k].new_path = NewPathOf(i)}

\* The deltas before the i-th all convert.
PrefixConverts(i) == Diff_try_from(SubSeq(git_diff, 1, i - 1)).tag = "Ok"

\* C14: a raw diff of n deltas either fails to convert as a whole or yields a
\* Diff whose five sets hold n entries in all, every delta recorded once, in
\* the set of its status and in no other; a delta of a status other than
\* Added, Deleted, Modified, Renamed, Copied makes the conversion fail, with
\* the unhandled-delta error when the deltas before it convert.
C14_EveryDeltaClassified ==
    /\ diffRes.tag = "Ok" =>
          /\ Len(diffRes.val.created) + Len(diffRes.val.deleted)
               + Len(diffRes.val.modified) + Len(diffRes.val.moved)
               + Len(diffRes.val.copied) = Len(git_diff)
          /\ \A i \in 1..Len(git_diff) :
                /\ git_diff[i].status \in Handled
                /\ \A set \in DiffSets :
                      Cardinality(EntriesOf(diffRes.val, set, i)) =
                          IF set = SetOf(git_diff[i].status) THEN 1 ELSE 0
    /\ diffRes.tag # "None" =>
          \A i \in 1..Len(git_diff) :
              git_diff[i].status \notin Handled =>
                  /\ diffRes.tag = "Err"
                  /\ PrefixConverts(i) =>
                         diffRes.err = [tag |-> "DeltaUnhandled",
                                        status |-> git_diff[i].status]

\* A Typechange delta after an Added delta that converts: the conversion
\* failed with the unhandled-delta error.
C14_Witness ==
    /\ Len(git_diff) = 2
    /\ git_diff[1].status = "Added" /\ PrefixConverts(2)
    /\ git_diff[2].status = "Typechange"
    /\ diffRes = Err([tag |-> "DeltaUnhandled", status |-> "Typechange"])

\* The raw lines of all the hunks of a patch.
RECURSIVE AllLines(_)
AllLines(patch) == IF patch = <<>> THEN <<>> ELSE Head(patch).lines \o AllLines(Tail(patch))

Markers == {"ContextEOFNL", "AddEOFNL", "DeleteEOFNL"}

\* "No trailing newline" is marked for the old side of the file: the engine
\* gave a line of origin AddEOFNL (the old file has no newline at its end,
\* the new one does) or ContextEOFNL (neither has); for the new side:
\* DeleteEOFNL (the old file has one, the new one has not) or ContextEOFNL.
OldSideMarked(patch) == \E l \in Range(AllLines(patch)) : l.origin \in {"AddEOFNL", "ContextEOFNL"}
NewSideMarked(patch) == \E l \in Range(AllLines(patch)) : l.origin \in {"DeleteEOFNL", "ContextEOFNL"}

\* The deltas that are Modified with a patch.
ModifiedText == {i \in 1..Len(git_diff) :
                    /\ git_diff[i].status = "Modified"
                    /\ git_diff[i].patch.tag = "Ok"
                    /\ git_diff[i].patch.val.tag = "Some"}
PatchAt(i) == git_diff[i].patch.val.val

\* The entry of the modified set that records the i-th delta.
ModifiedEntry(i) ==
    diffRes.val.modified[CHOOSE k \in 1..Len(diffRes.val.modified) :
                             diffRes.val.modified[k].path = NewPathOf(i)]

NotMarker(l) == l.origin \notin Markers
NonMarkers(hunk) == SelectSeq(hunk.lines, NotMarker)

\* The tagged line a raw line with a line number is translated to.
Tagged(l) ==
    IF l.old_lineno.tag = "None"
    THEN [tag |-> "Addition", line_num |-> l.new_lineno.val]
    ELSE IF l.new_lineno.tag = "None"
    THEN [tag |-> "Deletion", line_num |-> l.old_lineno.val]
    ELSE [tag |-> "Context", line_num_old |-> l.old_lineno.val,
          line_num_new |-> l.new_lineno.val]

Numberless(l) == l.old_lineno.tag = "None" /\ l.new_lineno.tag = "None"

\* C16: every raw hunk line of a modified text file that is no marker is
\* translated to one tagged line, in order: Addition with only a new line
\* number, Deletion with only an old one, Context with both; a line with
\* neither fails the conversion with the invalid-line error. A patch with no
\* line that has only an old number yields no Deletion-tagged line.
C16_LinesTranslated ==
    diffRes.tag # "None" =>
        \A i \in ModifiedText :
            IF \E h \in 1..Len(PatchAt(i)) :
                   \E l \in Range(NonMarkers(PatchAt(i)[h])) : Numberless(l)
            THEN /\ diffRes.tag = "Err"
                 /\ PrefixConverts(i) => diffRes.err = "LineDiff::Invalid"
            ELSE diffRes.tag = "Ok" =>
                 LET out == ModifiedEntry(i).diff.hunks
                 IN /\ Len(out) = Len(PatchAt(i))
                    /\ \A h \in 1..Len(out) :
                          /\ Len(out[h].lines) = Len(NonMarkers(PatchAt(i)[h]))
                          /\ \A k \in 1..Len(out[h].lines) :
                                out[h].lines[k] = Tagged(NonMarkers(PatchAt(i)[h])[k])
                    /\ (\A l \in Range(AllLines(PatchAt(i))) :
                            ~(l.old_lineno.tag = "Some" /\ l.new_lineno.tag = "None"))
                       => \A h \in 1..Len(out) :
                              \A k \in 1..Len(out[h].lines) :
                                  out[h].lines[k].tag # "Deletion"

\* A hunk of an added line, a marker and a context line became two tagged
\* lines, none of them a Deletion.
C16_Witness ==
    /\ diffRes.tag = "Ok"
    /\ ModifiedText = {1}
    /\ Len(PatchAt(1)[1].lines) = 3
    /\ PatchAt(1)[1].lines[1].origin = "Addition"
    /\ PatchAt(1)[1].lines[2].origin = "DeleteEOFNL"
    /\ PatchAt(1)[1].lines[3] = [origin |-> "Context", old_lineno |-> Some(1),
                                 new_lineno |-> Some(1)]
    /\ Len(ModifiedEntry(1).diff.hunks[1].lines) = 2
    /\ ModifiedEntry(1).diff.hunks[1].lines[1].tag = "Addition"
    /\ ModifiedEntry(1).diff.hunks[1].lines[2].tag = "Context"

\* The Modified deltas for which the engine has no patch.
ModifiedNoPatch == {i \in 1..Len(git_diff) :
                       /\ git_diff[i].status = "Modified"
                       /\ git_diff[i].new_file.path.tag = "Some"
                       /\ git_diff[i].patch = Ok(None)}

\* C17: a Modified delta without patch data is recorded as binary-modified
\* when its file is flagged binary; otherwise the conversion fails, with
\* PatchUnavailable carrying the delta's path when the deltas before it
\* convert.
C17_ModifiedWithoutPatch ==
    diffRes.tag # "None" =>
        \A i \in ModifiedNoPatch :
            IF git_diff[i].new_file.is_binary
            THEN diffRes.tag = "Ok" =>
                     /\ Cardinality(EntriesOf(diffRes.val, "modified", i)) = 1
                     /\ ModifiedEntry(i).diff = [tag |-> "Binary"]
            ELSE /\ diffRes.tag = "Err"
                 /\ PrefixConverts(i) =>
                        diffRes.err = [tag |-> "PatchUnavailable", path |-> NewPathOf(i)]

\* After an Added delta that converts, a Modified delta of a file not binary
\* and without patch: the conversion failed with PatchUnavailable(~/f2).
C17_Witness ==
    /\ Len(git_diff) = 2
    /\ PrefixConverts(2)
    /\ 2 \in ModifiedNoPatch
    /\ ~git_diff[2].new_file.is_binary
    /\ diffRes = Err([tag |-> "PatchUnavailable", path |-> <<"~", "f2">>])

\* ================================================ Path::push, pop, append
\* The labels pushed, and the Paths appended.
Labels == {"a", "b"}
OtherPaths == {<<"a">>, <<"b", "a">>}

\* NonEmpty::push: onto the tail.
NonEmpty_push(ne, e) == Append(ne, e)

\* NonEmpty::pop: from the tail only; the head stays.
NonEmpty_pop_any(ne) == [ne |-> Front(ne), res |-> Some(Last(ne))]

NonEmpty_pop(ne) ==
    IF Tail(ne) = <<>> THEN [ne |-> ne, res |-> None]
    ELSE [ne |-> <<Head(ne)>> \o Front(Tail(ne)), res |-> Some(Last(ne))]

\* NonEmpty::append: the other vector is moved behind the tail.
NonEmpty_append(ne, other) == ne \o other

\* Path::push, Path::pop, Path::append
Path_push(p, label) == NonEmpty_push(p, label)
Path_pop(p) == NonEmpty_pop(p)
Path_append(p, other) == NonEmpty_append(p, other)

\* Path::root() or Path::new(label)
InitPathOps ==
    /\ PathIdle
    /\ parents = <<>>
    /\ ctime = <<>>
    /\ tree = <<>>
    /\ walk = None
    /\ history = <<>>
    /\ ret = None
    /\ git_diff = <<>>
    /\ diffRes = None
    /\ rendered = <<>>
    /\ WalkIdle
    /\ pathObj \in {<<l>> : l \in Labels \cup {"~"}}

\* path.push(label)
PPush(label) ==
    /\ Len(pathObj) < MaxPathLen
    /\ pathObj' = Path_push(pathObj, label)
    /\ ret' = [tag |-> "Call", op |-> "push", res |-> None]
    /\ UNCHANGED <<pathVars, repoVars, walk, history, git_diff, diffRes, rendered, entries, treeRes, threads>>

\* path.pop()
PPop ==
    /\ pathObj' = Path_pop(pathObj).ne
    /\ ret' = [tag |-> "Call", op |-> "pop", res |-> Path_pop(pathObj).res]
    /\ UNCHANGED <<pathVars, repoVars, walk, history, git_diff, diffRes, rendered, entries, treeRes, threads>>

\* path.append(&mut other)
PAppend(other) ==
    /\ Len(pathObj) + Len(other) <= MaxPathLen
    /\ pathObj' = Path_append(pathObj, other)
    /\ ret' = [tag |-> "Call", op |-> "append", res |-> None]
    /\ UNCHANGED <<pathVars, repoVars, walk, history, git_diff, diffRes, rendered, entries, treeRes, threads>>

NextPathOps ==
    \/ \E label \in Labels : PPush(label)
    \/ PPop
    \/ \E other \in OtherPaths : PAppend(other)

SpecPathOps == InitPathOps /\ [][NextPathOps]_vars

\* C20: after any sequence of push, pop and append the Path has at least one
\* label; pop on a Path of one label removes nothing and returns no label
\* (and pop on a longer Path returns its last label and removes just that).
C20_PathNeverEmpty ==
    /\ [](Len(pathObj) >= 1)
    /\ [][ret'.op = "pop" =>
            IF Len(pathObj) = 1
            THEN pathObj' = pathObj /\ ret'.res = None
            ELSE /\ ret'.res = Some(pathObj[Len(pathObj)])
                 /\ pathObj' = SubSeq(pathObj, 1, Len(pathObj) - 1)]_vars

\* pop on the Path of the single label a returned no label.
C20_Witness ==
    /\ ret.tag = "Call" /\ ret.op = "pop"
    /\ ret.res = None
    /\ pathObj = <<"a">>

\* ===================================== Browser::get_directory, the snapshot
\* The repository the Browser holds, as the rendering function is handed it.
Repository == [parents |-> parents, ctime |-> ctime, tree |-> tree]

\* git Browser::get_tree: the files of the commit's tree; find_commit fails
\* for a commit the repository lacks.
get_tree(repository, commit) ==
    IF commit \notin DOMAIN repository.tree THEN Err("Git")
    ELSE LET present(f) == repository.tree[commit][f] = 1
         IN Ok(SelectSeq(Files, present))

\* The closure git Browser::new stores: the tree of the History's first
\* commit, as a Directory.
snapshot_of_oldest(repository, h) == get_tree(repository, h[Len(h)])

snapshot(repository, h) == get_tree(repository, h[1])

\* Browser::get_directory: one call of the stored function on the Browser's
\* repository and History; calls is the log of the calls made so far.
Browser_get_directory_cached(calls, repository, h) ==
    IF calls = <<>>
    THEN [calls |-> <<[repository |-> repository, history |-> h]>>,
          res |-> snapshot(repository, h)]
    ELSE [calls |-> calls,
          res |-> snapshot(calls[Len(calls)].repository, calls[Len(calls)].history)]

Browser_get_directory(calls, repository, h) ==
    [calls |-> Append(calls, [repository |-> repository, history |-> h]),
     res |-> snapshot(repository, h)]

\* Browser::modify
Browser_modify(h, f) ==
    IF f = "oldest" THEN History_new(h[Len(h)]) ELSE History_new(h[1])

\* Browser::view_at with the closure |h| h.find_suffix(artifact)
Browser_view_at_or_stay(h, default_history, artifact) ==
    LET found == History_find_suffix(h, artifact)
    IN IF found.tag = "None" THEN h ELSE found.val

Browser_view_at(h, default_history, artifact) ==
    LET found == History_find_suffix(h, artifact)
    IN IF found.tag = "None" THEN default_history ELSE found.val

\* The Histories set() and view_at() are handed, the closures of modify(),
\* the artifact of view_at()'s closure, and the names and ids the switches
\* are called with.
SetHistories == {History_new(2)}
ModifyFns == {"oldest", "newest"}
ViewArtifacts == {2}
RenderNames == {"v1", "dev", "gone"}
RenderOids == {0, 2}
RenderPaths == {<<"~", "src", "lib">>, <<"~">>}

\* In every commit the README; src/lib in every second commit.
RenderTree ==
    [c \in Commits |-> [f \in Range(Files) |-> IF f = "README" THEN 1 ELSE c % 2]]

\* A repository, and no Browser opened on it yet.
InitRender ==
    /\ PathIdle
    /\ parents \in Shapes
    /\ ctime = Times(0)
    /\ tree = RenderTree
    /\ walk = None
    /\ history = <<>>
    /\ ret = None
    /\ git_diff = <<>>
    /\ diffRes = None
    /\ rendered = <<>>
    /\ pathObj = <<>>
    /\ WalkIdle

\* browser.set(history)
Set(h) ==
    /\ history # <<>>
    /\ history' = Browser_set(history, h)
    /\ ret' = [tag |-> "Call", op |-> "set", arg |-> h, res |-> Ok(<<>>)]
    /\ UNCHANGED <<extVars, pathVars, repoVars, walk>>

\* browser.modify(f)
Modify(f) ==
    /\ history # <<>>
    /\ history' = Browser_modify(history, f)
    /\ ret' = [tag |-> "Call", op |-> "modify", arg |-> f, res |-> Ok(<<>>)]
    /\ UNCHANGED <<extVars, pathVars, repoVars, walk>>

\* browser.view_at(default_history, |h| h.find_suffix(artifact))
ViewAt(default_history, artifact) ==
    /\ history # <<>>
    /\ history' = Browser_view_at(history, default_history, artifact)
    /\ ret' = [tag |-> "Call", op |-> "view_at",
               arg |-> [artifact |-> artifact, default_history |-> default_history],
               res |-> Ok(<<>>)]
    /\ UNCHANGED <<extVars, pathVars, repoVars, walk>>

\* browser.get_directory()
GetDirectory ==
    /\ history # <<>>
    /\ Len(rendered) < MaxRenders
    /\ LET r == Browser_get_directory(rendered, Repository, history)
       IN /\ rendered' = r.calls
          /\ ret' = [tag |-> "Call", op |-> "get_directory", arg |-> <<>>,
                     res |-> r.res]
    /\ UNCHANGED <<pathVars, repoVars, walk, history, git_diff, diffRes, pathObj, entries, treeRes, threads>>

NextRender ==
    \/ New
    \/ \E h \in SetHistories : Set(h)
    \/ \E f \in ModifyFns : Modify(f)
    \/ \E h \in SetHistories, artifact \in ViewArtifacts : ViewAt(h, artifact)
    \/ \E fault \in {0, MaxFault} : ToHead(fault)
    \/ \E name \in RenderNames : Branch(name, 0)
    \/ \E name \in RenderNames : Tag(name, 0)
    \/ \E oid \in RenderOids : Commit(oid, 0)
    \/ \E spec \in RenderNames : Revspec(spec, 0)
    \/ GetDirectory
    \/ \E path \in RenderPaths : LastCommit(path, 0)

SpecRender == InitRender /\ [][NextRender]_vars

\* The operations that may change the History.
HistoryOps == {"set", "modify", "view_at", "head", "branch", "tag", "commit", "revspec"}

\* C18: every get_directory call invokes the stored rendering function
\* exactly once, on the repository and the History current at the call, and
\* answers what that invocation yields; no operation that changes the History
\* invokes it; so of two get_directory calls with a switch to another History
\* between them, the second renders the other History.
C18_RendersOnDemand ==
    [][/\ (ret'.tag = "Call" /\ ret'.op = "get_directory") =>
            /\ rendered' = Append(rendered, [repository |-> Repository,
                                             history |-> history])
            /\ ret'.res = snapshot(Repository, history)
            /\ history' = history
            /\ (rendered # <<>> /\ rendered[Len(rendered)].history # history) =>
                    rendered'[Len(rendered')] # rendered[Len(rendered)]
       /\ (ret'.tag = "Call" /\ ret'.op \in HistoryOps \cup {"new"}) =>
            rendered' = rendered]_vars

\* Two get_directory calls with a successful switch between them rendered
\* two different Histories, into two different Directories.
C18_Witness ==
    /\ ret.tag = "Call" /\ ret.op = "get_directory"
    /\ Len(rendered) = 2
    /\ rendered[1].history # rendered[2].history
    /\ rendered[2].history = history
    /\ snapshot(Repository, rendered[1].history) # ret.res

\* ================ the Repository's traversals and diffs, called on their own
\* The functions keep nothing between calls: each behaviour is one call on
\* one repository.
\* A repository.
InitIndex ==
    /\ ExtIdle
    /\ PathIdle
    /\ parents \in Shapes
    /\ \E skew \in Skews : ctime = Times(skew)
    /\ tree \in Trees
    /\ walk = None
    /\ history = <<>>
    /\ ret = None

\* The engine fails at the fault-th item of a revwalk, for every item a
\* revwalk may hand out, or (0) not at all.
ItemFaults == 0..NumCommits

\* ---- the path-filtered walk of RepositoryRef (vcs/git/repo.rs)
\* git2::DiffOptions::pathspec(path): the deltas kept are those at the path
\* or beneath it; the root path keeps every delta.
pathspec(diff, path) ==
    LET kept(delta) == IsPrefix(path, Path_from_PathBuf(delta))
    IN SelectSeq(diff, kept)

\* RepositoryRef::diff_commits(Some(path), from, to): from is a commit, or 0
\* for None, the empty tree.
RepositoryRef_diff_commits(path, from, to) ==
    pathspec(deltas(IF from = 0 THEN EmptyTree ELSE tree[from], tree[to], Files), path)

\* RepositoryRef::diff_commit_and_parents: the commit against its first
\* parent, or against the empty tree when it has none.
RepositoryRef_diff_commit_and_parents(path, commit) ==
    LET parent == IF parents[commit] = <<>> THEN 0 ELSE parents[commit][1]
        diff == RepositoryRef_diff_commits(path, parent, commit)
    IN IF diff # <<>> THEN Some(path) ELSE None

\* The for loop of RepositoryRef::file_history.
RECURSIVE file_history_loop(_, _, _, _)
file_history_loop(rw, commits, path, commit_history) ==
    LET n == revwalk_next(rw)
    IN IF n.item.tag = "None" THEN commits
       ELSE IF RepositoryRef_diff_commit_and_parents(path, n.item.val).tag = "Some"
            THEN IF commit_history = "Last" THEN Append(commits, n.item.val)
                 ELSE file_history_loop(n.rw, Append(commits, n.item.val),
                                        path, commit_history)
       ELSE file_history_loop(n.rw, commits, path, commit_history)

\* RepositoryRef::file_history
RepositoryRef_file_history(path, commit_history, commit) ==
    Ok(file_history_loop(revwalk_push(commit), <<>>, path, commit_history))

\* repository_ref.file_history(&path, commit_history, commit)
FileHistory(path, commit_history, commit) ==
    /\ parents # <<>>
    /\ ret = None
    /\ ret' = [tag |-> "Call", op |-> "RepositoryRef::file_history",
               arg |-> [path |-> path, commit_history |-> commit_history,
                        commit |-> commit],
               fault |-> 0,
               res |-> RepositoryRef_file_history(path, commit_history, commit)]
    /\ UNCHANGED <<extVars, pathVars, repoVars, walk, history>>

\* repository.diff_commit_and_parents(&commit)
DiffCommit(commit) ==
    /\ parents # <<>>
    /\ ret = None
    /\ ret' = [tag |-> "Call", op |-> "diff_commit_and_parents", arg |-> commit,
               fault |-> 0, res |-> Ok(diff_commit_and_parents(commit))]
    /\ UNCHANGED <<extVars, pathVars, repoVars, walk, history>>

\* repository.commit_to_history(head)
Traverse(head, fault) ==
    /\ parents # <<>>
    /\ ret = None
    /\ ret' = [tag |-> "Call", op |-> "commit_to_history", arg |-> head,
               fault |-> fault, res |-> commit_to_history(head, fault)]
    /\ UNCHANGED <<extVars, pathVars, repoVars, walk, history>>

\* repository.file_history(commit)
BuildIndex(commit, fault) ==
    /\ parents # <<>>
    /\ ret = None
    /\ ret' = [tag |-> "Call", op |-> "file_history", arg |-> commit,
               fault |-> fault, res |-> file_history(commit, fault)]
    /\ UNCHANGED <<extVars, pathVars, repoVars, walk, history>>

NextIndex ==
    \/ \E commit \in Commits : DiffCommit(commit)
    \/ \E head \in Commits, fault \in ItemFaults : Traverse(head, fault)
    \/ \E commit \in Commits, fault \in ItemFaults : BuildIndex(commit, fault)
    \/ \E path \in QueryPaths, commit_history \in {"Last", "Full"}, commit \in Commits :
          FileHistory(path, commit_history, commit)

SpecIndex == InitIndex /\ [][NextIndex]_vars

Indexed(index) == UNION {Range(e.value) : e \in index}

\* C24: the History built from a starting revision has that revision as its
\* first element, and the rank the index build from the same start gives a
\* revision is the revision's position in that History, the start at rank 0.
C24_RankIsPosition ==
    (ret.tag = "Call" /\ ret.res.tag = "Ok") =>
        /\ ret.op = "commit_to_history" => ret.res.val[1] = ret.arg
        /\ ret.op = "file_history" =>
               LET h == commit_to_history(ret.arg, 0).val
               IN \A oc \in Indexed(ret.res.val) :
                     /\ oc.id + 1 \in DOMAIN h
                     /\ h[oc.id + 1] = oc.commit
                     /\ (oc.id = 0 <=> oc.commit = ret.arg)

\* An index built from the newest commit that holds a revision of rank 2.
C24_Witness ==
    /\ ret.tag = "Call" /\ ret.op = "file_history" /\ ret.res.tag = "Ok"
    /\ ret.arg = NumCommits
    /\ \E oc \in Indexed(ret.res.val) :
          oc.id = 2 /\ commit_to_history(ret.arg, 0).val[3] = oc.commit

\* C28: in the index last_commit builds, the revisions stored at a path are
\* in non-decreasing rank order, so the first has the smallest rank of the
\* entry; and the revision last_commit returns has no larger rank than any
\* revision stored at or beneath the queried path.
C28_EntriesRankOrdered ==
    (ret.tag = "Call" /\ ret.op = "last_commit" /\ ret.res.tag = "Ok") =>
        LET index == file_history(Browser_get(history)[1], 0).val
            beneath == {e \in index : IsPrefix(ret.arg, e.key)}
        IN /\ \A e \in index : \A i, j \in DOMAIN e.value :
                  i <= j => e.value[i].id <= e.value[j].id
           /\ ret.res.val.tag = "Some" =>
                  \E found \in Indexed(beneath) :
                      /\ found.commit = ret.res.val.val
                      /\ \A oc \in Indexed(beneath) : found.id <= oc.id

\* last_commit of a path whose entry holds two revisions answered the first.
C28_Witness ==
    /\ ret.tag = "Call" /\ ret.op = "last_commit" /\ ret.res.tag = "Ok"
    /\ ret.arg = <<"~", "src", "lib">>
    /\ \E e \in file_history(history[1], 0).val :
          /\ e.key = ret.arg
          /\ Len(e.value) >= 2
          /\ e.value[1].id < e.value[2].id
          /\ ret.res.val = Some(e.value[1].commit)

\* C29: the two last-touch implementations agree: the path-filtered walk in
\* Last mode returns the revision that last_commit returns from the index
\* for the same start and path, and no revision when last_commit returns none.
C29_ImplementationsAgree ==
    (/\ ret.tag = "Call" /\ ret.op = "RepositoryRef::file_history"
     /\ ret.arg.commit_history = "Last") =>
        LET indexed == Browser_last_commit(<<ret.arg.commit>>, ret.arg.path, 0)
        IN ret.res.val =
               (IF indexed.val.tag = "None" THEN <<>> ELSE <<indexed.val.val>>)

\* ========================================================= the tree walk
\* An entry as the walk hands it to the closure: the path of the directory
\* that holds it (tree_path, "" for the root of the tree), its name, whether
\* the name is UTF-8, the kind of object it names, and whether the engine
\* fails to load the object.
Entry(root, name, utf8, kind, fault) ==
    [root |-> root, name |-> name, utf8 |-> utf8, kind |-> kind, fault |-> fault]

\* impl From<file_system::Error> for TreeWalkError and
\* impl From<str::Utf8Error> for TreeWalkError: `err.into()`, which is
\* From::from of the same impl; the call returns only if the recursion ends.
\* depth is the number of frames on the stack, MaxStack the frames it holds.
RECURSIVE TreeWalkError_from(_, _)
TreeWalkError_from(err, depth) ==
    IF depth >= MaxStack THEN [tag |-> "Overflow"]
    ELSE TreeWalkError_from(err, depth + 1)

\* git Browser::tree_entry_to_file_and_path
tree_entry_to_file_and_path(entry) ==
    LET path == IF entry.root = <<>> THEN Ok(<<<<"~">>>>) ELSE Path_try_from(entry.root)
    IN IF path.tag = "Err" THEN TreeWalkError_from(path.err, 1)
       ELSE IF entry.kind = "commit" THEN Err("Commit")
       ELSE IF entry.fault
            THEN [tag |-> "Err", err |-> "Git", of |-> entry.root \o entry.name]
       ELSE IF entry.kind # "blob" THEN Err("NotBlob")
       ELSE IF ~entry.utf8 THEN TreeWalkError_from("Utf8Error", 1)
       ELSE LET name == Label_try_from(entry.name)
            IN IF name.tag = "Err"
               THEN [tag |-> "Err", err |-> "Git", of |-> name.err]
               ELSE Ok([path |-> path.val, name |-> name.val])

\* git Browser::update_file_map: the map is kept as the set of its (key,
\* value) entries, the value the names pushed so far, in the order pushed.
update_file_map(path, name, files) ==
    IF \E e \in files : e.key = path
    THEN LET e == CHOOSE x \in files : x.key = path
         IN (files \ {e}) \cup {[key |-> path, value |-> Append(e.value, name)]}
    ELSE files \cup {[key |-> path, value |-> <<name>>]}

\* How the closure of get_tree takes an entry that is not a blob: it goes on.
not_blob_aborts(file_paths_or_error) ==
    [go |-> FALSE, acc |-> [tag |-> "Err", err |-> "Git", of |-> "NotBlob"]]

not_blob(file_paths_or_error) == [go |-> TRUE, acc |-> file_paths_or_error]

\* How the closure takes TreeWalkError::Git(err): it keeps the error in
\* file_paths_or_error and answers TreeWalkResult::Abort.
git_error_goes_on(file_paths_or_error, err) == [go |-> TRUE, acc |-> err]

git_error(file_paths_or_error, err) == [go |-> FALSE, acc |-> err]

\* tree.walk(PreOrder, closure) in get_tree: the closure is called on every
\* entry until it answers Abort; file_paths_or_error is what it leaves.
RECURSIVE Tree_walk(_, _)
Tree_walk(es, file_paths_or_error) ==
    IF es = <<>> THEN file_paths_or_error
    ELSE LET r == tree_entry_to_file_and_path(Head(es))
         IN CASE r.tag = "Overflow" -> r
              [] r.tag = "Ok" ->
                    Tree_walk(Tail(es),
                        IF file_paths_or_error.tag = "Ok"
                        THEN Ok(update_file_map(r.val.path, r.val.name,
                                                file_paths_or_error.val))
                        ELSE file_paths_or_error)
              [] r.tag = "Err" /\ r.err \in {"NotBlob", "Commit"} ->
                    LET next == not_blob(file_paths_or_error)
                    IN IF next.go THEN Tree_walk(Tail(es), next.acc) ELSE next.acc
              [] OTHER ->
                    LET next == git_error(file_paths_or_error, r)
                    IN IF next.go THEN Tree_walk(Tail(es), next.acc) ELSE next.acc

\* git Browser::get_tree on a commit whose tree has the entries es.
get_tree_of(es) == Tree_walk(es, Ok({}))

\* ---- the trees walked
EntryNames == {<<"a">>, <<"b">>}

\* What a directory may hold: blobs (one with a name that is not UTF-8),
\* submodule commits, and sub-trees holding blobs.
Blobs == {[kind |-> "blob", name |-> n, utf8 |-> u, children |-> <<>>] :
             n \in EntryNames, u \in BOOLEAN}
Items ==
    Blobs
    \cup {[kind |-> "commit", name |-> n, utf8 |-> TRUE, children |-> <<>>] : n \in EntryNames}
    \cup {[kind |-> "tree", name |-> n, utf8 |-> TRUE, children |-> c] :
             n \in EntryNames,
             c \in {<<>>} \cup {<<b>> : b \in Blobs}}

\* The entries of a directory in the order of a pre-order walk: the entry
\* of a sub-tree is met before the entries the sub-tree holds.
RECURSIVE PreOrder(_, _)
PreOrder(root, items) ==
    IF items = <<>> THEN <<>>
    ELSE LET it == Head(items)
         IN <<Entry(root, it.name, it.utf8, it.kind, FALSE)>>
            \o PreOrder(root \o it.name \o <<"/">>, it.children)
            \o PreOrder(root, Tail(items))

\* The engine fails to load the objects of the entries in the set at.
WithFaults(es, at) == [i \in DOMAIN es |-> [es[i] EXCEPT !.fault = i \in at]]

\* No two entries of one directory have the same name.
DistinctNames(items) ==
    \A i, j \in DOMAIN items : i # j => items[i].name # items[j].name

\* A commit's tree with some entries the engine fails to load, not walked yet.
InitWalks ==
    /\ PathIdle
    /\ parents = <<>>
    /\ ctime = <<>>
    /\ tree = <<>>
    /\ walk = None
    /\ history = <<>>
    /\ ret = None
    /\ git_diff = <<>>
    /\ diffRes = None
    /\ rendered = <<>>
    /\ pathObj = <<>>
    /\ threads = <<>>
    /\ treeRes = None
    /\ \E n \in 0..MaxEntries : \E items \in [1..n -> Items] :
          /\ DistinctNames(items)
          /\ \E at \in SUBSET (1..(2 * n)) :
                /\ Cardinality(at) <= MaxFault + 1
                /\ at \subseteq DOMAIN PreOrder(<<>>, items)
                /\ entries = WithFaults(PreOrder(<<>>, items), at)

\* get_tree, called by the snapshot closure of get_directory
GetTree ==
    /\ treeRes = None
    /\ treeRes' = get_tree_of(entries)
    /\ UNCHANGED <<pathVars, repoVars, walk, history, ret, git_diff, diffRes,
                   rendered, pathObj, entries, threads>>

\* The caller drops the result; the tree may be walked again.
DropTree ==
    /\ treeRes # None
    /\ treeRes' = None
    /\ UNCHANGED <<pathVars, repoVars, walk, history, ret, git_diff, diffRes,
                   rendered, pathObj, entries, threads>>

NextWalks == GetTree \/ DropTree

SpecWalks == InitWalks /\ [][NextWalks]_vars

\* ---- what the claims speak of
\* The directory of an entry, as a Path: the root, or one label per piece.
RECURSIVE Pieces(_)
Pieces(root) ==
    IF root = <<>> THEN <<>>
    ELSE LET i == CHOOSE k \in 1..Len(root) :
                      root[k] = "/" /\ \A j \in 1..(k - 1) : root[j] # "/"
         IN <<SubSeq(root, 1, i - 1)>> \o Pieces(SubSeq(root, i + 1, Len(root)))

DirOf(e) == IF e.root = <<>> THEN <<<<"~">>>> ELSE Pieces(e.root)

IsBlob(e) == e.kind = "blob"
BlobsIn(es, dir) ==
    LET here(e) == IsBlob(e) /\ DirOf(e) = dir
        held == SelectSeq(es, here)
    IN [i \in DOMAIN held |-> held[i].name]

\* The entry makes the walk fail: the engine does not load its object (a
\* submodule commit is never loaded), or it is a blob whose name is not UTF-8.
Fails(e) == (e.fault /\ e.kind # "commit") \/ (IsBlob(e) /\ ~e.utf8)

\* C22: an entry that is not a blob (a sub-tree, a submodule commit) is
\* skipped and the walk goes on: when no entry fails, get_tree succeeds, the
\* keys of the map are the directories that hold a blob, and the value at a
\* directory is the names of its blobs, each once, in walk order.
C22_NonBlobSkipped ==
    (treeRes # None /\ \A i \in DOMAIN entries : ~Fails(entries[i])) =>
        /\ treeRes.tag = "Ok"
        /\ {e.key : e \in treeRes.val} =
               {DirOf(entries[i]) : i \in {j \in DOMAIN entries : IsBlob(entries[j])}}
        /\ \A e \in treeRes.val : e.value = BlobsIn(entries, e.key)
        /\ \A e, f \in treeRes.val : e.key = f.key => e = f

\* A tree of a submodule commit a and of a sub-tree b that holds a blob:
\* the walk went past both and collected the blob under b.
C22_Witness ==
    /\ treeRes # None
    /\ Len(entries) = 3
    /\ entries[1].kind = "commit" /\ entries[2].kind = "tree"
    /\ entries[3].kind = "blob" /\ entries[3].root = <<"b", "/">>
    /\ treeRes = Ok({[key |-> <<<<"b">>>>, value |-> <<entries[3].name>>]})

\* =============================== the walks under failures of the engine
\* A repository whose commit times are in commit order.
InitTraverse ==
    /\ ExtIdle
    /\ PathIdle
    /\ parents \in Shapes
    /\ ctime = Times(0)
    /\ tree = RenderTree
    /\ walk = None
    /\ history = <<>>
    /\ ret = None

\* A tree to walk, or a repository to traverse.
InitFailFast == InitWalks \/ InitTraverse

NextFailFast ==
    \/ GetTree
    \/ DropTree
    \/ \E head \in Commits, fault \in ItemFaults : Traverse(head, fault)
    \/ \E commit \in Commits, fault \in ItemFaults : BuildIndex(commit, fault)

SpecFailFast == InitFailFast /\ [][NextFailFast]_vars

\* The first entry of the walk that fails, if one does.
FirstFailing(es) ==
    CHOOSE i \in DOMAIN es : Fails(es[i]) /\ \A j \in 1..(i - 1) : ~Fails(es[j])

\* The engine fails on the entry: it does not load its object.
EngineFails(e) == e.fault /\ e.kind # "commit"

\* C25: when an engine call fails during a tree walk, an ancestry traversal
\* or an index build, the operation returns the error of the first failing
\* call and nothing else: nothing collected before the failure comes with it,
\* and the error of no later failing call takes its place.
C25_FirstErrorOnly ==
    /\ (/\ treeRes # None
        /\ \E i \in DOMAIN entries : Fails(entries[i])
        /\ EngineFails(entries[FirstFailing(entries)])) =>
           LET e == entries[FirstFailing(entries)]
           IN treeRes = [tag |-> "Err", err |-> "Git", of |-> e.root \o e.name]
    /\ (/\ ret.tag = "Call"
        /\ ret.op \in {"commit_to_history", "file_history"}
        /\ ret.fault \in 1..Cardinality(Ancestors(ret.arg))) =>
           ret.res = Err("Git")

\* The walk collected a blob, then the engine failed on a sub-tree and would
\* have failed on the blob beneath it: the error of the sub-tree was returned.
C25_Witness ==
    /\ treeRes # None /\ treeRes.tag = "Err"
    /\ Len(entries) = 3
    /\ entries[1].kind = "blob" /\ ~Fails(entries[1])
    /\ EngineFails(entries[2]) /\ entries[2].kind = "tree"
    /\ EngineFails(entries[3])
    /\ treeRes.of = entries[2].root \o entries[2].name

\* C26: when an entry has a malformed directory path or a name that is not
\* UTF-8, the conversion of that failure into the tree-walk error returns,
\* and get_tree returns a typed error.
C26_ConversionReturns ==
    (/\ treeRes # None
     /\ \E i \in DOMAIN entries : Fails(entries[i])
     /\ ~EngineFails(entries[FirstFailing(entries)])) =>
        treeRes.tag = "Err"

\* C27: view_at(default, f) leaves the Browser at f(current History) when f
\* returns a History and at default when f returns none: for f the closure
\* h -> h.find_suffix(a), at the suffix of the current History that starts at
\* the first a when a is in the current History, at default otherwise.
C27_ViewAt ==
    [][(ret'.tag = "Call" /\ ret'.op = "view_at") =>
          LET a == ret'.arg.artifact
          IN IF \E i \in DOMAIN history : history[i] = a
             THEN history' = SubSeq(history, FirstOccurrence(history, a), Len(history))
             ELSE history' = ret'.arg.default_history]_vars

\* view_at left the Browser at a History of two revisions that starts at the
\* artifact: a suffix of the previous History, not the default.
C27_Witness ==
    /\ ret.tag = "Call" /\ ret.op = "view_at"
    /\ history # ret.arg.default_history
    /\ history[1] = ret.arg.artifact
    /\ Len(history) >= 2

\* The Histories that start with the revision first and go on otherwise.
StartingWith(first) ==
    {<<first>> \o rest : rest \in UNION {[1..n -> Commits] : n \in 0..2}}

\* C30: what the git Browser renders and what last_commit answers depend
\* only on the first revision of the current History: every History with the
\* same first revision and other remaining revisions gives the same Directory
\* and the same last_commit answer.
C30_OnlyFirstRevision ==
    (ret.tag = "Call" /\ history # <<>>) =>
        /\ ret.op = "get_directory" =>
               \A h \in StartingWith(history[1]) : ret.res = snapshot(Repository, h)
        /\ ret.op = "last_commit" =>
               \A h \in StartingWith(history[1]) :
                   ret.res = Browser_last_commit(h, ret.arg, 0)

\* Two Histories with the same first revision and different remaining
\* revisions were rendered, the second into the Directory of the first.
C30_Witness ==
    /\ ret.tag = "Call" /\ ret.op = "get_directory"
    /\ Len(rendered) = 2
    /\ rendered[1].history[1] = rendered[2].history[1]
    /\ rendered[1].history # rendered[2].history
    /\ ret.res = snapshot(Repository, rendered[1].history)

\* ============================ read-only calls of several threads, in steps
\* Every call into the engine is one step; what a call keeps between its
\* steps (the commit it read, its revwalk, its index) is local to the call.
Threads == 1..NumThreads

\* The paths the threads ask last_commit about.
ThreadPaths == {<<"~", "src", "lib">>, <<"~">>}

\* A repository, no Browser opened on it yet, every thread idle.
InitThreads ==
    /\ PathIdle
    /\ parents \in Shapes
    /\ ctime = Times(0)
    /\ tree = RenderTree
    /\ walk = None
    /\ history = <<>>
    /\ ret = None
    /\ git_diff = <<>>
    /\ diffRes = None
    /\ rendered = <<>>
    /\ pathObj = <<>>
    /\ entries = <<>>
    /\ treeRes = None
    /\ threads = [t \in Threads |-> [pc |-> "idle"]]

\* Browser::new, before any thread is handed the Browser.
Open ==
    /\ history = <<>>
    /\ history' = Repository_head(0).val
    /\ UNCHANGED <<pathVars, repoVars, walk, ret, git_diff, diffRes, rendered,
                   pathObj, entries, treeRes, threads>>

ThreadStep(t, call) ==
    /\ history # <<>>
    /\ threads' = [threads EXCEPT ![t] = call]
    /\ UNCHANGED <<pathVars, repoVars, walk, history, ret, git_diff, diffRes,
                   rendered, pathObj, entries, treeRes>>

\* browser.get(): self.history.clone()
TGet(t) ==
    /\ threads[t].pc = "idle"
    /\ ThreadStep(t, [pc |-> "done", op |-> "get", arg |-> <<>>,
                      res |-> Ok(Browser_get(history))])

\* browser.get_directory() enters the stored closure with &self.repository
\* and &self.history; history.0.first() is the commit whose tree it walks.
TGetDirectory(t) ==
    /\ threads[t].pc = "idle"
    /\ ThreadStep(t, [pc |-> "tree", op |-> "get_directory", arg |-> <<>>,
                      first |-> history[1]])

\* find_commit, peel_to_tree and the tree walk of get_tree.
TGetTree(t) ==
    /\ threads[t].pc = "tree"
    /\ ThreadStep(t, [pc |-> "done", op |-> "get_directory", arg |-> <<>>,
                      res |-> get_tree(Repository, threads[t].first)])

\* browser.last_commit(path): self.get().first().clone(), then file_history
\* makes Forest::root() and a revwalk, and pushes the commit's id.
TLastCommit(t, path) ==
    /\ threads[t].pc = "idle"
    /\ ThreadStep(t, [pc |-> "loop", op |-> "last_commit", arg |-> path,
                      revwalk |-> revwalk_push(Browser_get(history)[1]),
                      file_histories |-> Forest_root, id |-> 0])

\* One turn of `for (id, commit_result) in revwalk.enumerate()` in
\* collect_file_history, on the locals of the call.
collect_turn_unranked(call, item, rw) ==
    [call EXCEPT !.revwalk = rw,
                 !.file_histories =
                     insert_paths(@, diff_commit_and_parents(item),
                                  OrderedCommit(0, item))]

collect_turn(call, item, rw) ==
    [call EXCEPT !.revwalk = rw,
                 !.file_histories =
                     insert_paths(@, diff_commit_and_parents(item),
                                  OrderedCommit(call.id, item)),
                 !.id = @ + 1]

TCollect(t) ==
    /\ threads[t].pc = "loop"
    /\ LET n == revwalk_next(threads[t].revwalk)
       IN /\ n.item.tag = "Some"
          /\ ThreadStep(t, collect_turn(threads[t], n.item.val, n.rw))

\* The revwalk is exhausted: file_history.find(&path.0).map(maximum_by ...)
TFind(t) ==
    /\ threads[t].pc = "loop"
    /\ revwalk_next(threads[t].revwalk).item.tag = "None"
    /\ LET found == Forest_find(threads[t].file_histories, threads[t].arg)
       IN ThreadStep(t, [pc |-> "done", op |-> "last_commit",
                         arg |-> threads[t].arg,
                         res |-> Ok(IF found.tag = "None" THEN None
                                    ELSE Some(SubTree_maximum_by(found.val)[1].commit))])

\* The caller takes the result; the locals of the call are dropped.
TReturn(t) ==
    /\ threads[t].pc = "done"
    /\ ThreadStep(t, [pc |-> "idle"])

NextThreads ==
    \/ Open
    \/ \E t \in Threads : TGet(t)
    \/ \E t \in Threads : TGetDirectory(t)
    \/ \E t \in Threads : TGetTree(t)
    \/ \E t \in Threads, path \in ThreadPaths : TLastCommit(t, path)
    \/ \E t \in Threads : TCollect(t)
    \/ \E t \in Threads : TFind(t)
    \/ \E t \in Threads : TReturn(t)

SpecThreads == InitThreads /\ [][NextThreads]_vars

\* What the call returns when it runs alone on the Browser.
Alone(call) ==
    CASE call.op = "get" -> Ok(Browser_get(history))
      [] call.op = "get_directory" -> snapshot(Repository, history)
      [] call.op = "last_commit" -> Browser_last_commit(history, call.arg, 0)

\* C21: under every interleaving of get, get_directory and last_commit calls
\* of several threads on one Browser on which no switch runs, every call
\* returns what it returns when it runs alone, and the Browser's History is
\* the same at every point of the interleaving.
C21_ReadsInterleave ==
    /\ [](\A t \in DOMAIN threads :
            threads[t].pc = "done" => threads[t].res = Alone(threads[t]))
    /\ [][history # <<>> => history' = history]_vars

\* One thread returned from last_commit while another thread was in the
\* middle of its own index build, one turn ahead of an empty index.
C21_Witness ==
    /\ threads # <<>>
    /\ threads[1].pc = "done" /\ threads[1].op = "last_commit"
    /\ threads[1].res.val.tag = "Some"
    /\ threads[2].pc = "loop" /\ threads[2].id = 1

====
